---------------------------- MODULE Spec2Model ----------------------------
(***************************************************************************)
(* A model of the HubSpot adapter's core (src/src/mcp_server_hubspot):     *)
(* the industry normalizer, the similarity primitive, the domain matcher,  *)
(* the two scorers, and the HubSpotClient operations acting on the record  *)
(* store.                                                                  *)
(*                                                                         *)
(* Strings are sequences of one-character strings, so that upper(),        *)
(* strip(), replace(), split() and the edit distance are computed as the   *)
(* code computes them.  None is the one-element sequence <<"None">>, which *)
(* no string equals because "None" is not a character.  Python's floats    *)
(* are modelled by exact rationals <<numerator, denominator>>.             *)
(***************************************************************************)
EXTENDS Integers, Sequences, FiniteSets, TLC

None == <<"None">>

\* the cased letters of the model: the ASCII letters and one letter outside
\* ASCII, which str.upper() and str.isupper() treat like any other letter
Lowers == <<"a","b","c","d","e","f","g","h","i","j","k","l","m",
            "n","o","p","q","r","s","t","u","v","w","x","y","z","é">>
Uppers == <<"A","B","C","D","E","F","G","H","I","J","K","L","M",
            "N","O","P","Q","R","S","T","U","V","W","X","Y","Z","É">>

\* the positions of the two tables
LetterIdx == 1..Len(Lowers)

\* the letters of each case, and the letter of the other case for each
UpperSet == {Uppers[i] : i \in LetterIdx}
LowerSet == {Lowers[i] : i \in LetterIdx}
ToUpper == [c \in LowerSet |-> Uppers[CHOOSE i \in LetterIdx : Lowers[i] = c]]
ToLower == [c \in UpperSet |-> Lowers[CHOOSE i \in LetterIdx : Uppers[i] = c]]

\* str.isupper() / str.islower() of one character
IsUpperChar(c) == c \in UpperSet
IsLowerChar(c) == c \in LowerSet
UpperChar(c) == IF IsLowerChar(c) THEN ToUpper[c] ELSE c
LowerChar(c) == IF IsUpperChar(c) THEN ToLower[c] ELSE c

\* str.upper(), str.lower()
PyUpper(s) == [i \in 1..Len(s) |-> UpperChar(s[i])]
PyLower(s) == [i \in 1..Len(s) |-> LowerChar(s[i])]

\* the characters str.strip() removes
IsSpace(c) == c \in {" ", "\t", "\n"}

RECURSIVE PyLStrip(_)
PyLStrip(s) == IF s # <<>> /\ IsSpace(Head(s)) THEN PyLStrip(Tail(s)) ELSE s

RECURSIVE PyRStrip(_)
PyRStrip(s) ==
  IF s # <<>> /\ IsSpace(s[Len(s)]) THEN PyRStrip(SubSeq(s, 1, Len(s) - 1)) ELSE s

PyStrip(s) == PyRStrip(PyLStrip(s))

\* str.rstrip("/")
RECURSIVE PyRStripSlash(_)
PyRStripSlash(s) ==
  IF s # <<>> /\ s[Len(s)] = "/" THEN PyRStripSlash(SubSeq(s, 1, Len(s) - 1)) ELSE s

StartsWith(s, p) == Len(p) <= Len(s) /\ SubSeq(s, 1, Len(p)) = p
EndsWith(s, p) == Len(p) <= Len(s) /\ SubSeq(s, Len(s) - Len(p) + 1, Len(s)) = p

\* Python's  sub in s
Contains(sub, s) ==
  \E i \in 0..(Len(s) - Len(sub)) : SubSeq(s, i + 1, i + Len(sub)) = sub

\* the least member of a set of positions, 0 for the empty set
FirstOf(positions) ==
  IF positions = {} THEN 0
  ELSE CHOOSE i \in positions : \A j \in positions : i <= j

\* the first index at or after from at which sub occurs in s, 0 when it does not
FindFrom(s, sub, from) ==
  FirstOf({i \in from..(Len(s) - Len(sub) + 1) :
             \A k \in 1..Len(sub) : s[i + k - 1] = sub[k]})

\* str.replace(old, new) for a non-empty old: left to right, non-overlapping
RECURSIVE PyReplace(_, _, _)
PyReplace(s, old, new) ==
  IF FindFrom(s, old, 1) = 0 THEN s
  ELSE SubSeq(s, 1, FindFrom(s, old, 1) - 1) \o new
         \o PyReplace(SubSeq(s, FindFrom(s, old, 1) + Len(old), Len(s)), old, new)

\* str.split(c) for a one-character separator c: the segments of s from
\* position from on
RECURSIVE PySplitFrom(_, _, _)
PySplitFrom(s, c, from) ==
  IF FindFrom(s, <<c>>, from) = 0 THEN <<SubSeq(s, from, Len(s))>>
  ELSE <<SubSeq(s, from, FindFrom(s, <<c>>, from) - 1)>>
         \o PySplitFrom(s, c, FindFrom(s, <<c>>, from) + 1)

PySplit(s, c) == PySplitFrom(s, c, 1)

\* sep.join(parts)
RECURSIVE PyJoin(_, _)
PyJoin(parts, sep) ==
  IF parts = <<>> THEN <<>>
  ELSE IF Len(parts) = 1 THEN parts[1]
       ELSE parts[1] \o sep \o PyJoin(Tail(parts), sep)

\* filter(None, parts): the non-empty segments
RECURSIVE FilterNonEmpty(_)
FilterNonEmpty(parts) ==
  IF parts = <<>> THEN <<>>
  ELSE IF Head(parts) = <<>> THEN FilterNonEmpty(Tail(parts))
       ELSE <<Head(parts)>> \o FilterNonEmpty(Tail(parts))

(***************************************************************************)
(* Exact rationals for the float scores.                                   *)
(***************************************************************************)
RECURSIVE Gcd(_, _)
Gcd(a, b) == IF b = 0 THEN a ELSE Gcd(b, a % b)

\* the rational n/d (d > 0, n >= 0) in lowest terms
Rat(n, d) == LET g == Gcd(n, d) IN <<n \div g, d \div g>>
RZero == <<0, 1>>
ROne == <<1, 1>>
RAdd(x, y) == Rat(x[1] * y[2] + y[1] * x[2], x[2] * y[2])
RMul(x, y) == Rat(x[1] * y[1], x[2] * y[2])
RDiv(x, y) == Rat(x[1] * y[2], x[2] * y[1])
RLt(x, y) == x[1] * y[2] < y[1] * x[2]
RLe(x, y) == x[1] * y[2] <= y[1] * x[2]
RMin(x, y) == IF RLe(x, y) THEN x ELSE y

(***************************************************************************)
(* industries.py                                                           *)
(***************************************************************************)
\* industries.py:4-21
TEST_INDUSTRIES ==
  {<<"B","A","N","K","I","N","G">>,
   <<"F","I","N","A","N","C","I","A","L","_","S","E","R","V","I","C","E","S">>,
   <<"I","N","S","U","R","A","N","C","E">>,
   <<"F","I","N","A","N","C","E">>,
   <<"I","N","V","E","S","T","M","E","N","T","_","M","A","N","A","G","E","M","E","N","T">>,
   <<"H","E","A","L","T","H","_","C","A","R","E">>,
   <<"P","H","A","R","M","A","C","E","U","T","I","C","A","L","S">>,
   <<"E","N","E","R","G","Y">>,
   <<"T","E","L","E","C","O","M","M","U","N","I","C","A","T","I","O","N","S">>,
   <<"T","R","A","N","S","P","O","R","T","A","T","I","O","N">>,
   <<"T","E","C","H","N","O","L","O","G","Y">>,
   <<"E","_","C","O","M","M","E","R","C","E">>,
   <<"E","N","T","E","R","T","A","I","N","M","E","N","T">>,
   <<"B","U","S","I","N","E","S","S","_","S","E","R","V","I","C","E","S">>,
   <<"M","A","N","U","F","A","C","T","U","R","I","N","G">>,
   <<"I","N","F","O","R","M","A","T","I","O","N","_","T","E","C","H","N","O","L","O","G","Y","_","A","N","D","_","S","E","R","V","I","C","E","S">>}

\* industries.py:24-172
APPROVED_INDUSTRIES ==
  {<<"A","C","C","O","U","N","T","I","N","G">>,
   <<"A","I","R","L","I","N","E","S","_","A","V","I","A","T","I","O","N">>,
   <<"A","L","T","E","R","N","A","T","I","V","E","_","D","I","S","P","U","T","E","_","R","E","S","O","L","U","T","I","O","N">>,
   <<"A","L","T","E","R","N","A","T","I","V","E","_","M","E","D","I","C","I","N","E">>,
   <<"A","N","I","M","A","T","I","O","N">>,
   <<"A","P","P","A","R","E","L","_","F","A","S","H","I","O","N">>,
   <<"A","R","C","H","I","T","E","C","T","U","R","E","_","P","L","A","N","N","I","N","G">>,
   <<"A","R","T","S","_","A","N","D","_","C","R","A","F","T","S">>,
   <<"A","U","T","O","M","O","T","I","V","E">>,
   <<"A","V","I","A","T","I","O","N","_","A","E","R","O","S","P","A","C","E">>,
   <<"B","A","N","K","I","N","G">>,
   <<"B","I","O","T","E","C","H","N","O","L","O","G","Y">>,
   <<"B","R","O","A","D","C","A","S","T","_","M","E","D","I","A">>,
   <<"B","U","I","L","D","I","N","G","_","M","A","T","E","R","I","A","L","S">>,
   <<"B","U","S","I","N","E","S","S","_","S","U","P","P","L","I","E","S","_","A","N","D","_","E","Q","U","I","P","M","E","N","T">>,
   <<"C","A","P","I","T","A","L","_","M","A","R","K","E","T","S">>,
   <<"C","H","E","M","I","C","A","L","S">>,
   <<"C","I","V","I","C","_","S","O","C","I","A","L","_","O","R","G","A","N","I","Z","A","T","I","O","N">>,
   <<"C","I","V","I","L","_","E","N","G","I","N","E","E","R","I","N","G">>,
   <<"C","O","M","M","E","R","C","I","A","L","_","R","E","A","L","_","E","S","T","A","T","E">>,
   <<"C","O","M","P","U","T","E","R","_","N","E","T","W","O","R","K","_","S","E","C","U","R","I","T","Y">>,
   <<"C","O","M","P","U","T","E","R","_","G","A","M","E","S">>,
   <<"C","O","M","P","U","T","E","R","_","H","A","R","D","W","A","R","E">>,
   <<"C","O","M","P","U","T","E","R","_","N","E","T","W","O","R","K","I","N","G">>,
   <<"C","O","M","P","U","T","E","R","_","S","O","F","T","W","A","R","E">>,
   <<"I","N","T","E","R","N","E","T">>,
   <<"C","O","N","S","T","R","U","C","T","I","O","N">>,
   <<"C","O","N","S","U","M","E","R","_","E","L","E","C","T","R","O","N","I","C","S">>,
   <<"C","O","N","S","U","M","E","R","_","G","O","O","D","S">>,
   <<"C","O","N","S","U","M","E","R","_","S","E","R","V","I","C","E","S">>,
   <<"C","O","S","M","E","T","I","C","S">>,
   <<"D","A","I","R","Y">>,
   <<"D","E","F","E","N","S","E","_","S","P","A","C","E">>,
   <<"D","E","S","I","G","N">>,
   <<"E","D","U","C","A","T","I","O","N","_","M","A","N","A","G","E","M","E","N","T">>,
   <<"E","_","L","E","A","R","N","I","N","G">>,
   <<"E","L","E","C","T","R","I","C","A","L","_","E","L","E","C","T","R","O","N","I","C","_","M","A","N","U","F","A","C","T","U","R","I","N","G">>,
   <<"E","N","T","E","R","T","A","I","N","M","E","N","T">>,
   <<"E","N","V","I","R","O","N","M","E","N","T","A","L","_","S","E","R","V","I","C","E","S">>,
   <<"E","V","E","N","T","S","_","S","E","R","V","I","C","E","S">>,
   <<"E","X","E","C","U","T","I","V","E","_","O","F","F","I","C","E">>,
   <<"F","A","C","I","L","I","T","I","E","S","_","S","E","R","V","I","C","E","S">>,
   <<"F","A","R","M","I","N","G">>,
   <<"F","I","N","A","N","C","I","A","L","_","S","E","R","V","I","C","E","S">>,
   <<"F","I","N","E","_","A","R","T">>,
   <<"F","I","S","H","E","R","Y">>,
   <<"F","O","O","D","_","B","E","V","E","R","A","G","E","S">>,
   <<"F","O","O","D","_","P","R","O","D","U","C","T","I","O","N">>,
   <<"F","U","N","D","_","R","A","I","S","I","N","G">>,
   <<"F","U","R","N","I","T","U","R","E">>,
   <<"G","A","M","B","L","I","N","G","_","C","A","S","I","N","O","S">>,
   <<"G","L","A","S","S","_","C","E","R","A","M","I","C","S","_","C","O","N","C","R","E","T","E">>,
   <<"G","O","V","E","R","N","M","E","N","T","_","A","D","M","I","N","I","S","T","R","A","T","I","O","N">>,
   <<"G","O","V","E","R","N","M","E","N","T","_","R","E","L","A","T","I","O","N","S">>,
   <<"G","R","A","P","H","I","C","_","D","E","S","I","G","N">>,
   <<"H","E","A","L","T","H","_","W","E","L","L","N","E","S","S","_","A","N","D","_","F","I","T","N","E","S","S">>,
   <<"H","I","G","H","E","R","_","E","D","U","C","A","T","I","O","N">>,
   <<"H","O","S","P","I","T","A","L","_","H","E","A","L","T","H","_","C","A","R","E">>,
   <<"H","O","S","P","I","T","A","L","I","T","Y">>,
   <<"H","U","M","A","N","_","R","E","S","O","U","R","C","E","S">>,
   <<"I","M","P","O","R","T","_","A","N","D","_","E","X","P","O","R","T">>,
   <<"I","N","D","I","V","I","D","U","A","L","_","F","A","M","I","L","Y","_","S","E","R","V","I","C","E","S">>,
   <<"I","N","D","U","S","T","R","I","A","L","_","A","U","T","O","M","A","T","I","O","N">>,
   <<"I","N","F","O","R","M","A","T","I","O","N","_","S","E","R","V","I","C","E","S">>,
   <<"I","N","F","O","R","M","A","T","I","O","N","_","T","E","C","H","N","O","L","O","G","Y","_","A","N","D","_","S","E","R","V","I","C","E","S">>,
   <<"I","N","S","U","R","A","N","C","E">>,
   <<"I","N","T","E","R","N","A","T","I","O","N","A","L","_","A","F","F","A","I","R","S">>,
   <<"I","N","T","E","R","N","A","T","I","O","N","A","L","_","T","R","A","D","E","_","A","N","D","_","D","E","V","E","L","O","P","M","E","N","T">>,
   <<"I","N","V","E","S","T","M","E","N","T","_","B","A","N","K","I","N","G">>,
   <<"I","N","V","E","S","T","M","E","N","T","_","M","A","N","A","G","E","M","E","N","T">>,
   <<"J","U","D","I","C","I","A","R","Y">>,
   <<"L","A","W","_","E","N","F","O","R","C","E","M","E","N","T">>,
   <<"L","A","W","_","P","R","A","C","T","I","C","E">>,
   <<"L","E","G","A","L","_","S","E","R","V","I","C","E","S">>,
   <<"L","E","G","I","S","L","A","T","I","V","E","_","O","F","F","I","C","E">>,
   <<"L","E","I","S","U","R","E","_","T","R","A","V","E","L","_","T","O","U","R","I","S","M">>,
   <<"L","I","B","R","A","R","I","E","S">>,
   <<"L","O","G","I","S","T","I","C","S","_","A","N","D","_","S","U","P","P","L","Y","_","C","H","A","I","N">>,
   <<"L","U","X","U","R","Y","_","G","O","O","D","S","_","J","E","W","E","L","R","Y">>,
   <<"M","A","C","H","I","N","E","R","Y">>,
   <<"M","A","N","A","G","E","M","E","N","T","_","C","O","N","S","U","L","T","I","N","G">>,
   <<"M","A","R","I","T","I","M","E">>,
   <<"M","A","R","K","E","T","_","R","E","S","E","A","R","C","H">>,
   <<"M","A","R","K","E","T","I","N","G","_","A","N","D","_","A","D","V","E","R","T","I","S","I","N","G">>,
   <<"M","E","C","H","A","N","I","C","A","L","_","O","R","_","I","N","D","U","S","T","R","I","A","L","_","E","N","G","I","N","E","E","R","I","N","G">>,
   <<"M","E","D","I","A","_","P","R","O","D","U","C","T","I","O","N">>,
   <<"M","E","D","I","C","A","L","_","D","E","V","I","C","E","S">>,
   <<"M","E","D","I","C","A","L","_","P","R","A","C","T","I","C","E">>,
   <<"M","E","N","T","A","L","_","H","E","A","L","T","H","_","C","A","R","E">>,
   <<"M","I","L","I","T","A","R","Y">>,
   <<"M","I","N","I","N","G","_","M","E","T","A","L","S">>,
   <<"M","O","T","I","O","N","_","P","I","C","T","U","R","E","S","_","A","N","D","_","F","I","L","M">>,
   <<"M","U","S","E","U","M","S","_","A","N","D","_","I","N","S","T","I","T","U","T","I","O","N","S">>,
   <<"M","U","S","I","C">>,
   <<"N","A","N","O","T","E","C","H","N","O","L","O","G","Y">>,
   <<"N","E","W","S","P","A","P","E","R","S">>,
   <<"N","O","N","P","R","O","F","I","T","_","O","R","G","A","N","I","Z","A","T","I","O","N","_","M","A","N","A","G","E","M","E","N","T">>,
   <<"O","I","L","_","E","N","E","R","G","Y">>,
   <<"O","N","L","I","N","E","_","M","E","D","I","A">>,
   <<"O","U","T","S","O","U","R","C","I","N","G","_","O","F","F","S","H","O","R","I","N","G">>,
   <<"P","A","C","K","A","G","E","_","F","R","E","I","G","H","T","_","D","E","L","I","V","E","R","Y">>,
   <<"P","A","C","K","A","G","I","N","G","_","A","N","D","_","C","O","N","T","A","I","N","E","R","S">>,
   <<"P","A","P","E","R","_","F","O","R","E","S","T","_","P","R","O","D","U","C","T","S">>,
   <<"P","E","R","F","O","R","M","I","N","G","_","A","R","T","S">>,
   <<"P","H","A","R","M","A","C","E","U","T","I","C","A","L","S">>,
   <<"P","H","I","L","A","N","T","H","R","O","P","Y">>,
   <<"P","H","O","T","O","G","R","A","P","H","Y">>,
   <<"P","L","A","S","T","I","C","S">>,
   <<"P","O","L","I","T","I","C","A","L","_","O","R","G","A","N","I","Z","A","T","I","O","N">>,
   <<"P","R","I","M","A","R","Y","_","S","E","C","O","N","D","A","R","Y","_","E","D","U","C","A","T","I","O","N">>,
   <<"P","R","I","N","T","I","N","G">>,
   <<"P","R","O","F","E","S","S","I","O","N","A","L","_","T","R","A","I","N","I","N","G","_","C","O","A","C","H","I","N","G">>,
   <<"P","R","O","G","R","A","M","_","D","E","V","E","L","O","P","M","E","N","T">>,
   <<"P","U","B","L","I","C","_","P","O","L","I","C","Y">>,
   <<"P","U","B","L","I","C","_","R","E","L","A","T","I","O","N","S","_","A","N","D","_","C","O","M","M","U","N","I","C","A","T","I","O","N","S">>,
   <<"P","U","B","L","I","C","_","S","A","F","E","T","Y">>,
   <<"P","U","B","L","I","S","H","I","N","G">>,
   <<"R","A","I","L","R","O","A","D","_","M","A","N","U","F","A","C","T","U","R","E">>,
   <<"R","A","N","C","H","I","N","G">>,
   <<"R","E","A","L","_","E","S","T","A","T","E">>,
   <<"R","E","C","R","E","A","T","I","O","N","A","L","_","F","A","C","I","L","I","T","I","E","S","_","A","N","D","_","S","E","R","V","I","C","E","S">>,
   <<"R","E","L","I","G","I","O","U","S","_","I","N","S","T","I","T","U","T","I","O","N","S">>,
   <<"R","E","N","E","W","A","B","L","E","S","_","E","N","V","I","R","O","N","M","E","N","T">>,
   <<"R","E","S","E","A","R","C","H">>,
   <<"R","E","S","T","A","U","R","A","N","T","S">>,
   <<"R","E","T","A","I","L">>,
   <<"S","E","C","U","R","I","T","Y","_","A","N","D","_","I","N","V","E","S","T","I","G","A","T","I","O","N","S">>,
   <<"S","E","M","I","C","O","N","D","U","C","T","O","R","S">>,
   <<"S","H","I","P","B","U","I","L","D","I","N","G">>,
   <<"S","P","O","R","T","I","N","G","_","G","O","O","D","S">>,
   <<"S","P","O","R","T","S">>,
   <<"S","T","A","F","F","I","N","G","_","A","N","D","_","R","E","C","R","U","I","T","I","N","G">>,
   <<"S","U","P","E","R","M","A","R","K","E","T","S">>,
   <<"T","E","L","E","C","O","M","M","U","N","I","C","A","T","I","O","N","S">>,
   <<"T","E","X","T","I","L","E","S">>,
   <<"T","H","I","N","K","_","T","A","N","K","S">>,
   <<"T","O","B","A","C","C","O">>,
   <<"T","R","A","N","S","L","A","T","I","O","N","_","A","N","D","_","L","O","C","A","L","I","Z","A","T","I","O","N">>,
   <<"T","R","A","N","S","P","O","R","T","A","T","I","O","N","_","T","R","U","C","K","I","N","G","_","R","A","I","L","R","O","A","D">>,
   <<"U","T","I","L","I","T","I","E","S">>,
   <<"V","E","N","T","U","R","E","_","C","A","P","I","T","A","L","_","P","R","I","V","A","T","E","_","E","Q","U","I","T","Y">>,
   <<"V","E","T","E","R","I","N","A","R","Y">>,
   <<"W","A","R","E","H","O","U","S","I","N","G">>,
   <<"W","H","O","L","E","S","A","L","E">>,
   <<"W","I","N","E","_","A","N","D","_","S","P","I","R","I","T","S">>,
   <<"W","I","R","E","L","E","S","S">>,
   <<"W","R","I","T","I","N","G","_","A","N","D","_","E","D","I","T","I","N","G">>}

\* industries.py:199-208, the alias table of test mode, as (alias, canonical) pairs
test_mode_aliases ==
  {<<<<"T","E","C","H">>, <<"T","E","C","H","N","O","L","O","G","Y">>>>,
   <<<<"I","T">>, <<"T","E","C","H","N","O","L","O","G","Y">>>>,
   <<<<"I","T","_","S","E","R","V","I","C","E","S">>, <<"T","E","C","H","N","O","L","O","G","Y">>>>,
   <<<<"T","E","C","H","N","O","L","O","G","Y">>, <<"T","E","C","H","N","O","L","O","G","Y">>>>,
   <<<<"H","E","A","L","T","H","C","A","R","E">>, <<"H","E","A","L","T","H","_","C","A","R","E">>>>,
   <<<<"F","I","N","A","N","C","E">>, <<"F","I","N","A","N","C","I","A","L","_","S","E","R","V","I","C","E","S">>>>,
   <<<<"B","A","N","K","I","N","G","_","A","N","D","_","F","I","N","A","N","C","E">>, <<"F","I","N","A","N","C","I","A","L","_","S","E","R","V","I","C","E","S">>>>,
   <<<<"E","C","O","M","M","E","R","C","E">>, <<"E","_","C","O","M","M","E","R","C","E">>>>}

\* industries.py:208-232, the alias table of production mode
production_aliases ==
  {<<<<"M","A","N","U","F","A","C","T","U","R","I","N","G">>, <<"I","N","D","U","S","T","R","I","A","L","_","A","U","T","O","M","A","T","I","O","N">>>>,
   <<<<"I","N","D","U","S","T","R","I","A","L","_","M","A","N","U","F","A","C","T","U","R","I","N","G">>, <<"I","N","D","U","S","T","R","I","A","L","_","A","U","T","O","M","A","T","I","O","N">>>>,
   <<<<"I","T","_","S","E","R","V","I","C","E","S">>, <<"I","N","F","O","R","M","A","T","I","O","N","_","T","E","C","H","N","O","L","O","G","Y","_","A","N","D","_","S","E","R","V","I","C","E","S">>>>,
   <<<<"I","T">>, <<"I","N","F","O","R","M","A","T","I","O","N","_","T","E","C","H","N","O","L","O","G","Y","_","A","N","D","_","S","E","R","V","I","C","E","S">>>>,
   <<<<"T","E","C","H">>, <<"I","N","F","O","R","M","A","T","I","O","N","_","T","E","C","H","N","O","L","O","G","Y","_","A","N","D","_","S","E","R","V","I","C","E","S">>>>,
   <<<<"T","E","C","H","N","O","L","O","G","Y">>, <<"I","N","F","O","R","M","A","T","I","O","N","_","T","E","C","H","N","O","L","O","G","Y","_","A","N","D","_","S","E","R","V","I","C","E","S">>>>,
   <<<<"S","O","F","T","W","A","R","E">>, <<"C","O","M","P","U","T","E","R","_","S","O","F","T","W","A","R","E">>>>,
   <<<<"S","O","F","T","W","A","R","E","_","D","E","V","E","L","O","P","M","E","N","T">>, <<"C","O","M","P","U","T","E","R","_","S","O","F","T","W","A","R","E">>>>,
   <<<<"R","E","A","L","_","E","S","T","A","T","E","_","C","O","M","M","E","R","C","I","A","L">>, <<"C","O","M","M","E","R","C","I","A","L","_","R","E","A","L","_","E","S","T","A","T","E">>>>,
   <<<<"H","E","A","L","T","H","C","A","R","E">>, <<"H","O","S","P","I","T","A","L","_","H","E","A","L","T","H","_","C","A","R","E">>>>,
   <<<<"H","E","A","L","T","H","_","C","A","R","E">>, <<"H","O","S","P","I","T","A","L","_","H","E","A","L","T","H","_","C","A","R","E">>>>,
   <<<<"E","D","U","C","A","T","I","O","N">>, <<"E","D","U","C","A","T","I","O","N","_","M","A","N","A","G","E","M","E","N","T">>>>,
   <<<<"C","O","N","S","U","L","T","I","N","G">>, <<"M","A","N","A","G","E","M","E","N","T","_","C","O","N","S","U","L","T","I","N","G">>>>,
   <<<<"M","A","R","K","E","T","I","N","G">>, <<"M","A","R","K","E","T","I","N","G","_","A","N","D","_","A","D","V","E","R","T","I","S","I","N","G">>>>,
   <<<<"A","D","V","E","R","T","I","S","I","N","G">>, <<"M","A","R","K","E","T","I","N","G","_","A","N","D","_","A","D","V","E","R","T","I","S","I","N","G">>>>,
   <<<<"L","E","G","A","L">>, <<"L","E","G","A","L","_","S","E","R","V","I","C","E","S">>>>,
   <<<<"L","A","W">>, <<"L","E","G","A","L","_","S","E","R","V","I","C","E","S">>>>,
   <<<<"F","I","N","A","N","C","E">>, <<"F","I","N","A","N","C","I","A","L","_","S","E","R","V","I","C","E","S">>>>,
   <<<<"B","A","N","K","I","N","G","_","A","N","D","_","F","I","N","A","N","C","E">>, <<"F","I","N","A","N","C","I","A","L","_","S","E","R","V","I","C","E","S">>>>,
   <<<<"M","A","N","U","F","A","C","T","U","R","I","N","G","_","I","N","D","U","S","T","R","I","A","L">>, <<"I","N","D","U","S","T","R","I","A","L","_","A","U","T","O","M","A","T","I","O","N">>>>,
   <<<<"I","N","D","U","S","T","R","I","A","L">>, <<"I","N","D","U","S","T","R","I","A","L","_","A","U","T","O","M","A","T","I","O","N">>>>,
   <<<<"M","E","D","I","A">>, <<"M","E","D","I","A","_","P","R","O","D","U","C","T","I","O","N">>>>,
   <<<<"E","N","T","E","R","T","A","I","N","M","E","N","T","_","A","N","D","_","M","E","D","I","A">>, <<"E","N","T","E","R","T","A","I","N","M","E","N","T">>>>}

AliasOf(table, s) ==
  IF \E p \in table : p[1] = s THEN (CHOOSE p \in table : p[1] = s)[2] ELSE s

\* industries.py:185  industry is None or industry.strip() == ""
IsBlank(industry) == industry = None \/ PyStrip(industry) = <<>>

\* the variant without the filter(None, ...) of industries.py:192
CleanIndustryKeepEmpty(industry) ==
  LET s1 == PyStrip(PyUpper(industry))
      s2 == PyReplace(PyReplace(s1, <<"-">>, <<" ">>), <<" ", " ">>, <<" ">>)
      s3 == PyReplace(s2, <<" ">>, <<"_">>)
  IN  PyJoin(PySplit(s3, "_"), <<"_">>)

\* the variant without the upper() of industries.py:189
CleanIndustryAsGiven(industry) ==
  LET s1 == PyStrip(industry)
      s2 == PyReplace(PyReplace(s1, <<"-">>, <<" ">>), <<" ", " ">>, <<" ">>)
      s3 == PyReplace(s2, <<" ">>, <<"_">>)
  IN  PyJoin(FilterNonEmpty(PySplit(s3, "_")), <<"_">>)

\* industries.py:189-192: uppercase, trim, hyphens and spaces to underscores,
\* empty segments dropped
CleanIndustry(industry) ==
  LET s1 == PyStrip(PyUpper(industry))
      s2 == PyReplace(PyReplace(s1, <<"-">>, <<" ">>), <<" ", " ">>, <<" ">>)
      s3 == PyReplace(s2, <<" ">>, <<"_">>)
  IN  PyJoin(FilterNonEmpty(PySplit(s3, "_")), <<"_">>)

\* industries.py:195-196: normalize_industry raises ValueError("Industry must be
\* uppercase with underscores ...")
normalize_raises(industry) ==
  /\ ~IsBlank(industry)
  /\ LET normalized == CleanIndustry(industry)
     IN  \E i \in 1..Len(normalized) :
           ~(IsUpperChar(normalized[i]) \/ normalized[i] = "_")

\* the variant whose production table is the test table, completed by the
\* production entries for the keys the test table lacks
NormalizeTestAliasesFirst(industry, test_mode) ==
  IF IsBlank(industry) THEN <<>>
  ELSE AliasOf(IF test_mode THEN test_mode_aliases
               ELSE test_mode_aliases \cup
                      {p \in production_aliases :
                         \A q \in test_mode_aliases : q[1] # p[1]},
               CleanIndustry(industry))

\* industries.py:174-238: the value normalize_industry returns when it does not raise
normalize_industry(industry, test_mode) ==
  IF IsBlank(industry) THEN <<>>
  ELSE AliasOf(IF test_mode THEN test_mode_aliases ELSE production_aliases,
               CleanIndustry(industry))

\* the variant that looks the value up in the production vocabulary in either mode
IsApprovedInProduction(normalized, test_mode, allow_custom) ==
  IF normalized = <<>> THEN FALSE
  ELSE IF allow_custom THEN TRUE
  ELSE normalized \in APPROVED_INDUSTRIES

\* industries.py:255-265: a normalized value is valid when it is not empty and is
\* custom-allowed or in the active vocabulary
IsApproved(normalized, test_mode, allow_custom) ==
  IF normalized = <<>> THEN FALSE
  ELSE IF allow_custom THEN TRUE
  ELSE normalized \in (IF test_mode THEN TEST_INDUSTRIES ELSE APPROVED_INDUSTRIES)

\* industries.py:240-265
is_valid_industry(industry, test_mode, allow_custom) ==
  IF IsBlank(industry) THEN FALSE
  ELSE IF normalize_raises(industry) THEN FALSE
  ELSE IsApproved(normalize_industry(industry, test_mode), test_mode, allow_custom)

(***************************************************************************)
(* server.py: the similarity primitive and the domain matcher              *)
(***************************************************************************)
Min2(a, b) == IF a <= b THEN a ELSE b
Max2(a, b) == IF a >= b THEN a ELSE b

\* the variant without the substitution of server.py:90: a cell is reached by a
\* deletion or an insertion only
RECURSIVE LevRowNoSubstitution(_, _, _, _, _)
LevRowNoSubstitution(prev, c, s2, j, acc) ==
  IF j > Len(s2) THEN acc
  ELSE LET cell == IF c = s2[j] THEN prev[j]
                   ELSE Min2(prev[j + 1] + 1, acc[j] + 1)
           row  == Append(acc, cell)
       IN  IF Len(row) = j + 1 THEN LevRowNoSubstitution(prev, c, s2, j + 1, row) ELSE row

\* server.py:82-91, one row of the matrix: row i from row i-1 (prev), where c is
\* s1[i-1]; position j+1 of a row holds matrix[i][j]
RECURSIVE LevRow(_, _, _, _, _)
LevRow(prev, c, s2, j, acc) ==
  IF j > Len(s2) THEN acc
  ELSE LET cell == IF c = s2[j] THEN prev[j]
                   ELSE Min2(Min2(prev[j + 1] + 1, acc[j] + 1), prev[j] + 1)
           row  == Append(acc, cell)
       IN  IF Len(row) = j + 1 THEN LevRow(prev, c, s2, j + 1, row) ELSE row

RECURSIVE LevRows(_, _, _, _)
LevRows(s1, s2, i, prev) ==
  IF i > Len(s1) THEN prev
  ELSE LET row == LevRow(prev, s1[i], s2, 1, <<prev[1] + 1>>)
       IN  IF Len(row) = Len(s2) + 1 THEN LevRows(s1, s2, i + 1, row) ELSE row

\* server.py:73-93: matrix[len1][len2]
LevDistance(s1, s2) ==
  LevRows(s1, s2, 1, [j \in 1..(Len(s2) + 1) |-> j - 1])[Len(s2) + 1]

\* server.py:62-97
levenshtein_ratio(s1, s2) ==
  IF s1 = None \/ s2 = None \/ s1 = <<>> \/ s2 = <<>> THEN RZero
  ELSE LET m == Max2(Len(s1), Len(s2)) IN Rat(m - LevDistance(s1, s2), m)

\* the first index at which sub occurs in s, 0 when it does not
FindSub(s, sub) ==
  IF Contains(sub, s)
  THEN CHOOSE i \in 1..(Len(s) - Len(sub) + 1) :
         /\ SubSeq(s, i, i + Len(sub) - 1) = sub
         /\ \A k \in 1..(i - 1) : SubSeq(s, k, k + Len(sub) - 1) # sub
  ELSE 0

RECURSIVE UpToDelim(_)
UpToDelim(s) ==
  IF s = <<>> \/ Head(s) \in {"/", "?", "#"} THEN <<>>
  ELSE <<Head(s)>> \o UpToDelim(Tail(s))

\* server.py:29  urlparse(domain).netloc for scheme://authority/..., the
\* authority: the text after "://" up to the first "/", "?" or "#"
NetLoc(domain) ==
  UpToDelim(SubSeq(domain, FindSub(domain, <<":", "/", "/">>) + 3, Len(domain)))

\* server.py:25-35
normalize_domain(domain) ==
  LET d1 == IF Contains(<<":", "/", "/">>, domain) THEN NetLoc(domain) ELSE domain
      d2 == IF StartsWith(d1, <<"w", "w", "w", ".">>) THEN SubSeq(d1, 5, Len(d1)) ELSE d1
  IN  PyLower(PyStrip(PyRStripSlash(d2)))

\* the variant whose fuzzy rule fires at a similarity of 0.8 already
MatchDomainsInclusive(criteria_domain, company_domain) ==
  IF criteria_domain = None \/ criteria_domain = <<>>
     \/ company_domain = None \/ company_domain = <<>>
  THEN RZero
  ELSE LET c == normalize_domain(criteria_domain)
           d == normalize_domain(company_domain)
           base_criteria == PySplit(c, ".")[1]
           base_company  == PySplit(d, ".")[1]
           base_similarity == levenshtein_ratio(base_criteria, base_company)
       IN  IF c = d THEN ROne
           ELSE IF EndsWith(c, <<".">> \o d) \/ EndsWith(d, <<".">> \o c) THEN Rat(9, 10)
           ELSE IF base_criteria = base_company THEN Rat(8, 10)
           ELSE IF RLe(Rat(8, 10), base_similarity)
                THEN RMul(base_similarity, Rat(7, 10))
           ELSE RZero

\* server.py:20-60
_match_domains(criteria_domain, company_domain) ==
  IF criteria_domain = None \/ criteria_domain = <<>>
     \/ company_domain = None \/ company_domain = <<>>
  THEN RZero
  ELSE LET c == normalize_domain(criteria_domain)
           d == normalize_domain(company_domain)
           base_criteria == PySplit(c, ".")[1]
           base_company  == PySplit(d, ".")[1]
           base_similarity == levenshtein_ratio(base_criteria, base_company)
       IN  IF c = d THEN ROne
           ELSE IF EndsWith(c, <<".">> \o d) \/ EndsWith(d, <<".">> \o c) THEN Rat(9, 10)
           ELSE IF base_criteria = base_company THEN Rat(8, 10)
           ELSE IF RLt(Rat(8, 10), base_similarity)
                THEN RMul(base_similarity, Rat(7, 10))
           ELSE RZero

(***************************************************************************)
(* Property maps (criteria, company data, a record's properties) are       *)
(* functions from the keys present to a string or None.                    *)
(***************************************************************************)
Has(m, k) == k \in DOMAIN m

\* str(v)
Str(v) == IF v = None THEN <<"N", "o", "n", "e">> ELSE v

\* truthiness of a string or None
Truthy(v) == v # None /\ v # <<>>

\* {**old, **new}: the keys of new overwrite
Merge(old, new) ==
  [k \in DOMAIN old \cup DOMAIN new |-> IF k \in DOMAIN new THEN new[k] ELSE old[k]]

(***************************************************************************)
(* server.py:244-308, the listing scorer inside find_companies             *)
(***************************************************************************)
\* server.py:291
ListingWeights == [name |-> Rat(5, 10), domain |-> Rat(3, 10), industry |-> Rat(2, 10)]

\* server.py:248-257
ListingNameScore(criteria, properties, fuzzy_match) ==
  IF Has(criteria, "name") /\ Has(properties, "name") /\ properties["name"] # None
  THEN LET company_name  == PyLower(Str(properties["name"]))
           criteria_name == PyLower(Str(criteria["name"]))
       IN  IF criteria_name = company_name THEN ROne
           ELSE IF Contains(criteria_name, company_name) THEN Rat(9, 10)
           ELSE IF fuzzy_match
                THEN levenshtein_ratio(PyLower(criteria["name"]), PyLower(properties["name"]))
           ELSE RZero
  ELSE RZero

\* server.py:257  criteria["name"].lower() with a None name: AttributeError
ListingNameRaises(criteria, properties, fuzzy_match) ==
  /\ Has(criteria, "name") /\ Has(properties, "name") /\ properties["name"] # None
  /\ criteria["name"] = None
  /\ fuzzy_match
  /\ PyLower(Str(criteria["name"])) # PyLower(Str(properties["name"]))
  /\ ~Contains(PyLower(Str(criteria["name"])), PyLower(Str(properties["name"])))

\* server.py:262-264
ListingDomainScore(criteria, properties) ==
  IF Has(criteria, "domain") /\ Has(properties, "domain")
  THEN _match_domains(criteria["domain"], properties["domain"])
  ELSE RZero

\* server.py:277-282: equal industries score 1, others their similarity when fuzzy
IndustrySimilarity(criteria_industry, company_industry, fuzzy_match) ==
  IF criteria_industry = company_industry THEN ROne
  ELSE IF fuzzy_match THEN levenshtein_ratio(criteria_industry, company_industry)
  ELSE RZero

\* server.py:269-287; a malformed record industry is caught (line 284)
ListingIndustryScore(criteria, properties, fuzzy_match) ==
  IF Has(criteria, "industry") /\ Has(properties, "industry")
     /\ Truthy(properties["industry"]) /\ ~normalize_raises(properties["industry"])
  THEN IndustrySimilarity(normalize_industry(criteria["industry"], FALSE),
                          normalize_industry(properties["industry"], FALSE),
                          fuzzy_match)
  ELSE RZero

\* server.py:258, 265, 282: only a positive score is entered in match_details
PositiveScores(sc) ==
  [k \in {f \in DOMAIN sc : RLt(RZero, sc[f])} |-> sc[k]]

\* server.py:244-287: match_details of one company
ListingDetails(criteria, properties, fuzzy_match) ==
  PositiveScores([name     |-> ListingNameScore(criteria, properties, fuzzy_match),
                  domain   |-> ListingDomainScore(criteria, properties),
                  industry |-> ListingIndustryScore(criteria, properties, fuzzy_match)])

RECURSIVE RSum(_, _)
RSum(f, keys) ==
  IF keys = {} THEN RZero
  ELSE LET k == CHOOSE k \in keys : TRUE IN RAdd(f[k], RSum(f, keys \ {k}))

\* the variant that divides by the weights of the matched fields only
ListingScoreOfMatched(criteria, details) ==
  LET total_score  == RSum([k \in DOMAIN details |-> RMul(details[k], ListingWeights[k])],
                           DOMAIN details)
      total_weight == RSum(ListingWeights, DOMAIN details)
  IN  IF RLt(RZero, total_weight) THEN RDiv(total_score, total_weight) ELSE RZero

\* server.py:289-308: the overall score from the per-field scores of match_details
ListingScoreOf(criteria, details) ==
  LET searched     == {"name", "domain", "industry"} \cap DOMAIN criteria
      total_score  == RSum([k \in DOMAIN details |-> RMul(details[k], ListingWeights[k])],
                           DOMAIN details)
      total_weight == RSum(ListingWeights, searched)
  IN  IF RLt(RZero, total_weight) THEN RDiv(total_score, total_weight) ELSE RZero

ListingScore(criteria, properties, fuzzy_match) ==
  ListingScoreOf(criteria, ListingDetails(criteria, properties, fuzzy_match))

(***************************************************************************)
(* server.py:99-219, the detailed scorer _calculate_match_score            *)
(***************************************************************************)
\* server.py:103-108
DetailedWeights ==
  [name |-> Rat(4, 10), domain |-> Rat(3, 10), industry |-> Rat(2, 10), other |-> Rat(1, 10)]

\* server.py:139-144 and 174-179, the boosting ladder
Boost(s) ==
  IF RLt(Rat(9, 10), s) THEN ROne
  ELSE IF RLt(Rat(8, 10), s) THEN Rat(95, 100)
  ELSE IF RLt(Rat(7, 10), s) THEN Rat(9, 10)
  ELSE s

DetNameUsed(properties, criteria) ==
  Has(criteria, "name") /\ Has(properties, "name") /\ properties["name"] # None

\* the variant that compares the two names as they are written
DetNameExactAsWritten(properties, criteria) ==
  /\ DetNameUsed(properties, criteria)
  /\ criteria["name"] = properties["name"]

\* server.py:128  the exact-name short-circuit
DetNameExact(properties, criteria) ==
  /\ DetNameUsed(properties, criteria)
  /\ PyStrip(PyLower(criteria["name"])) = PyStrip(PyLower(properties["name"]))

\* server.py:137-146 and 172-181: a similarity above the floor counts, boosted:
\* <<contribution to score, matched>>
FuzzyPart(weight, similarity, floor) ==
  IF RLt(floor, similarity)
  THEN <<RMul(weight, Boost(similarity)), RLt(Rat(8, 10), Boost(similarity))>>
  ELSE <<RZero, FALSE>>

\* server.py:131-146
DetNameOf(criteria_name, company_name, fuzzy_match) ==
  IF Contains(criteria_name, company_name)
  THEN <<RMul(DetailedWeights.name, Rat(95, 100)), TRUE>>
  ELSE IF fuzzy_match
       THEN FuzzyPart(DetailedWeights.name,
                      levenshtein_ratio(criteria_name, company_name), Rat(5, 10))
  ELSE <<RZero, FALSE>>

\* server.py:122-146: <<the name's contribution to score, name_matched>>
DetName(properties, criteria, fuzzy_match) ==
  IF ~DetNameUsed(properties, criteria) THEN <<RZero, FALSE>>
  ELSE DetNameOf(PyStrip(PyLower(criteria["name"])),
                 PyStrip(PyLower(properties["name"])), fuzzy_match)

DetDomainUsed(properties, criteria) ==
  Has(criteria, "domain") /\ Has(properties, "domain") /\ properties["domain"] # None

\* server.py:153-155: <<contribution to score, contribution to total_weight>>
DetDomainOf(domain_score) ==
  <<IF RLt(RZero, domain_score) THEN RMul(DetailedWeights.domain, domain_score) ELSE RZero,
    DetailedWeights.domain>>

\* server.py:150-155
DetDomain(properties, criteria) ==
  IF ~DetDomainUsed(properties, criteria) THEN <<RZero, RZero>>
  ELSE DetDomainOf(_match_domains(criteria["domain"], properties["domain"]))

DetIndustryUsed(properties, criteria) ==
  Has(criteria, "industry") /\ Has(properties, "industry") /\ properties["industry"] # None

\* server.py:166-181
DetIndustryOf(criteria_industry, company_industry, fuzzy_match) ==
  IF criteria_industry = company_industry THEN <<DetailedWeights.industry, TRUE>>
  ELSE IF fuzzy_match
       THEN FuzzyPart(DetailedWeights.industry,
                      levenshtein_ratio(criteria_industry, company_industry), Rat(6, 10))
  ELSE <<RZero, FALSE>>

\* server.py:158-182: <<contribution to score, industry_matched>>
DetIndustry(properties, criteria, fuzzy_match) ==
  IF ~DetIndustryUsed(properties, criteria) THEN <<RZero, FALSE>>
  ELSE DetIndustryOf(normalize_industry(criteria["industry"], FALSE),
                     normalize_industry(properties["industry"], FALSE), fuzzy_match)

\* server.py:185
OtherProps(criteria) == DOMAIN criteria \ {"name", "domain", "industry"}

\* server.py:196-199
OtherFuzzy(prop_score) == IF RLt(Rat(7, 10), prop_score) THEN prop_score ELSE RZero

\* server.py:192-199
OtherSimilarity(a, b, fuzzy_match) ==
  IF a = b THEN ROne
  ELSE IF fuzzy_match THEN OtherFuzzy(levenshtein_ratio(a, b))
  ELSE RZero

\* server.py:191-199: the score of one other property, RZero when it does not count
OtherPropScore(properties, criteria, fuzzy_match, prop) ==
  IF Has(properties, prop) /\ properties[prop] # None
  THEN OtherSimilarity(PyLower(Str(criteria[prop])), PyLower(Str(properties[prop])),
                       fuzzy_match)
  ELSE RZero

\* server.py:201-202
OtherAverage(sc, matched) ==
  IF matched = {} THEN RZero
  ELSE RMul(DetailedWeights.other, RDiv(RSum(sc, matched), <<Cardinality(matched), 1>>))

\* server.py:189-199: the properties that count are those with a positive score
OtherMatched(sc) == OtherAverage(sc, {p \in DOMAIN sc : RLt(RZero, sc[p])})

\* server.py:186-203: the contribution of the other properties to score
DetOther(properties, criteria, fuzzy_match) ==
  OtherMatched([p \in OtherProps(criteria) |->
                  OtherPropScore(properties, criteria, fuzzy_match, p)])

\* server.py:124, 162-163: the exceptions the scorer lets escape
DetailedRaises(company, criteria, fuzzy_match) ==
  LET properties == company.properties IN
  /\ DOMAIN properties # {}
  /\ \/ DetNameUsed(properties, criteria) /\ criteria["name"] = None
     \/ /\ ~DetNameExact(properties, criteria)
        /\ DetIndustryUsed(properties, criteria)
        /\ \/ normalize_raises(criteria["industry"])
           \/ normalize_raises(properties["industry"])

\* server.py:210-215: score *= factor when the field matched
BoostIf(matched, score, factor) == IF matched THEN RMul(score, factor) ELSE score

\* server.py:147, 155, 182, 203
DetTotalWeight(properties, criteria, dm) ==
  RAdd(RAdd(DetailedWeights.name, dm[2]),
       RAdd(IF DetIndustryUsed(properties, criteria) THEN DetailedWeights.industry
            ELSE RZero,
            IF OtherProps(criteria) # {} THEN DetailedWeights.other ELSE RZero))

\* the variant without the cap at 1.0
DetFinalUncapped(properties, criteria, nm, dm, ind, other) ==
  RDiv(BoostIf(Has(criteria, "industry") /\ ind[2],
               BoostIf(Has(criteria, "name") /\ nm[2],
                       RAdd(RAdd(nm[1], dm[1]), RAdd(ind[1], other)),
                       Rat(12, 10)),
               Rat(11, 10)),
       DetTotalWeight(properties, criteria, dm))

\* server.py:206-219, from the contributions of the four parts
DetFinal(properties, criteria, nm, dm, ind, other) ==
  RMin(ROne,
       RDiv(BoostIf(Has(criteria, "industry") /\ ind[2],
                    BoostIf(Has(criteria, "name") /\ nm[2],
                            RAdd(RAdd(nm[1], dm[1]), RAdd(ind[1], other)),
                            Rat(12, 10)),
                    Rat(11, 10)),
            DetTotalWeight(properties, criteria, dm)))

\* server.py:115, 123, 151, 159, 190
DetUsed(properties, criteria) ==
  {k \in {"name", "domain", "industry"} :
     /\ Has(criteria, k) /\ Has(properties, k) /\ properties[k] # None}
  \cup OtherProps(criteria)

\* server.py:99-219
_calculate_match_score(company, criteria, fuzzy_match) ==
  IF DOMAIN company.properties = {} THEN RZero
  ELSE IF DetNameExact(company.properties, criteria) THEN ROne
  ELSE IF DetUsed(company.properties, criteria) = {} THEN RZero
  ELSE DetFinal(company.properties, criteria,
                DetName(company.properties, criteria, fuzzy_match),
                DetDomain(company.properties, criteria),
                DetIndustry(company.properties, criteria, fuzzy_match),
                DetOther(company.properties, criteria, fuzzy_match))
(***************************************************************************)
(* The record store (the HubSpot SDK client the code calls) and the        *)
(* bounds of the model.                                                    *)
(***************************************************************************)
\* the store holds at most this many companies
MaxCompanies == 3
\* the store delivers this many companies per page
PageSize == 2
\* the store holds at most this many contacts
MaxContacts == 2
\* operations served in one behaviour
MaxCalls == 1
\* the store call that fails is at most this one of the operation's store calls
MaxFaultIdx == 2
\* a short list of batch updates has at most this many items
MaxUpdates == 3

\* server.py:438  range(0, len(batch_inputs), 100)
BatchSize == 100

\* server.py:236  after = None, and a page without paging
NoCursor == 0

\* a company id the store never holds
UnknownId == MaxCompanies + 1

VARIABLES
  companies,  \* the store's companies, in paging order: [id, properties]
  contacts,   \* the store's contacts: [id, properties]
  nCalls,     \* operations served so far
  op,         \* the operation served last, "none" before the first
  args,       \* its arguments
  calls,      \* the store calls it issued (and, in a batch, its validations), in order
  matches,    \* the matches find_companies gave it
  outcome     \* what it returned or raised

vars == <<companies, contacts, nCalls, op, args, calls, matches, outcome>>

Returned(v) == [kind |-> "return", exc |-> "", value |-> v]
Raised(e, m) == [kind |-> "raise", exc |-> e, value |-> m]

\* companies.basic_api.get_page(after): the page after the cursor and the next cursor
GetPage(cs, after) ==
  [results |-> SubSeq(cs, after + 1, Min2(after + PageSize, Len(cs))),
   next    |-> IF after + PageSize < Len(cs) THEN after + PageSize ELSE NoCursor]

KnownId(cs, id) == \E i \in 1..Len(cs) : cs[i].id = id

\* companies.basic_api.update(company_id, {"properties": p}): the store afterwards
StoreUpdate(cs, id, p) ==
  [i \in 1..Len(cs) |->
     IF cs[i].id = id THEN [cs[i] EXCEPT !.properties = Merge(@, p)] ELSE cs[i]]

\* the record an update or a create returns
RecordOf(cs, id) == cs[CHOOSE i \in 1..Len(cs) : cs[i].id = id]

\* companies.basic_api.create({"properties": p})
NewId(cs) == Len(cs) + 1
StoreCreate(cs, p) == Append(cs, [id |-> NewId(cs), properties |-> p])

(***************************************************************************)
(* server.py:221-331  find_companies                                       *)
(***************************************************************************)
\* server.py:312-323, the entry of a company with these match_details
EntryOf(company, criteria, details) ==
  [company       |-> company,
   match_score   |-> ListingScoreOf(criteria, details),
   match_details |-> details]

\* server.py:243-323, the entry of one scanned company
MatchEntry(company, criteria, fuzzy_match) ==
  EntryOf(company, criteria, ListingDetails(criteria, company.properties, fuzzy_match))

\* server.py:310: an entry is kept when its score reaches the threshold
KeepIfReached(e, threshold) == IF RLe(threshold, e.match_score) THEN <<e>> ELSE <<>>

\* server.py:243-323: the entries of a page that reach the threshold, in page order
RECURSIVE PageMatches(_, _, _, _)
PageMatches(results, criteria, fuzzy_match, threshold) ==
  IF results = <<>> THEN <<>>
  ELSE KeepIfReached(MatchEntry(Head(results), criteria, fuzzy_match), threshold)
       \o PageMatches(Tail(results), criteria, fuzzy_match, threshold)

\* list.sort(key=match_score, reverse=True) is stable: an entry goes behind
\* every entry whose score is at least its own
RECURSIVE InsertDesc(_, _)
InsertDesc(sorted, e) ==
  IF sorted = <<>> THEN <<e>>
  ELSE IF RLt(Head(sorted).match_score, e.match_score) THEN <<e>> \o sorted
       ELSE <<Head(sorted)>> \o InsertDesc(Tail(sorted), e)

\* the variant that leaves the entries in scan order
NoSort(es) == es

RECURSIVE SortDesc(_)
SortDesc(es) ==
  IF es = <<>> THEN <<>>
  ELSE InsertDesc(SortDesc(SubSeq(es, 1, Len(es) - 1)), es[Len(es)])

RECURSIVE ScanPages(_, _, _, _, _, _, _, _)

\* the variant that returns after the first page
AfterFirstPage(cs, criteria, fuzzy_match, threshold, fault, page, issued, found) ==
  [raised |-> "", calls |-> issued, matches |-> SortDesc(found)]

\* server.py:325-330: after a page, the loop ends when the page has no paging
AfterPage(cs, criteria, fuzzy_match, threshold, fault, page, issued, found) ==
  IF page.next = NoCursor
  THEN [raised |-> "", calls |-> issued, matches |-> SortDesc(found)]
  ELSE ScanPages(cs, criteria, fuzzy_match, threshold, fault, page.next, issued, found)

\* the variant without the except clause of line 284: a malformed industry of a
\* record of the page ends the search with the ValueError
ScanPageUncaught(cs, criteria, fuzzy_match, threshold, fault, page, issued, acc) ==
  IF Len(issued) = fault
  THEN [raised |-> "ApiException", calls |-> issued, matches |-> <<>>]
  ELSE IF page.results = <<>>
  THEN [raised |-> "", calls |-> issued, matches |-> SortDesc(acc)]
  ELSE IF \E i \in 1..Len(page.results) :
             \/ ListingNameRaises(criteria, page.results[i].properties, fuzzy_match)
             \/ /\ Has(criteria, "industry")
                /\ Has(page.results[i].properties, "industry")
                /\ Truthy(page.results[i].properties["industry"])
                /\ normalize_raises(page.results[i].properties["industry"])
  THEN [raised |-> "ValueError", calls |-> issued, matches |-> <<>>]
  ELSE AfterPage(cs, criteria, fuzzy_match, threshold, fault, page, issued,
                 acc \o PageMatches(page.results, criteria, fuzzy_match, threshold))

\* server.py:239-327, one turn of the loop with the page the store gave; fault is
\* the position of the store call that fails, 0 when none does
ScanPage(cs, criteria, fuzzy_match, threshold, fault, page, issued, acc) ==
  IF Len(issued) = fault
  THEN [raised |-> "ApiException", calls |-> issued, matches |-> <<>>]
  ELSE IF page.results = <<>>
  THEN [raised |-> "", calls |-> issued, matches |-> SortDesc(acc)]
  ELSE IF \E i \in 1..Len(page.results) :
             ListingNameRaises(criteria, page.results[i].properties, fuzzy_match)
  THEN [raised |-> "AttributeError", calls |-> issued, matches |-> <<>>]
  ELSE AfterPage(cs, criteria, fuzzy_match, threshold, fault, page, issued,
                 acc \o PageMatches(page.results, criteria, fuzzy_match, threshold))

\* server.py:238-327, the paging loop from the cursor after
ScanPages(cs, criteria, fuzzy_match, threshold, fault, after, done, acc) ==
  ScanPage(cs, criteria, fuzzy_match, threshold, fault, GetPage(cs, after),
           Append(done, [call |-> "get_page", after |-> after, ok |-> Len(done) + 1 # fault]),
           acc)

\* server.py:221-331
find_companies(cs, criteria, fuzzy_match, threshold, fault) ==
  IF Has(criteria, "industry") /\ normalize_raises(criteria["industry"])
  THEN [raised |-> "ValueError", calls |-> <<>>, matches |-> <<>>]
  ELSE ScanPages(cs, criteria, fuzzy_match, threshold, fault, NoCursor, <<>>, <<>>)
(***************************************************************************)
(* The operations of HubSpotClient, one action each.                       *)
(***************************************************************************)
\* one tool call is served at a time (server.py:690-760, handle_call_tool)
CanServe == op = "none" /\ nCalls < MaxCalls

NoOutcome == [kind |-> "none", exc |-> "", value |-> <<>>]

\* server.py:690-760: handle_call_tool hands the result, or the exception, to the
\* caller, and the next call can be served
Respond ==
  /\ op # "none"
  /\ op' = "none"
  /\ args' = <<>>
  /\ calls' = <<>>
  /\ matches' = <<>>
  /\ outcome' = NoOutcome
  /\ UNCHANGED <<companies, contacts, nCalls>>

\* server.py:221-331
FindCompanies(criteria, fuzzy_match, threshold, fault) ==
  /\ CanServe
  /\ \E r \in {find_companies(companies, criteria, fuzzy_match, threshold, fault)} :
       /\ calls' = r.calls
       /\ matches' = r.matches
       /\ outcome' = IF r.raised = "" THEN Returned(r.matches) ELSE Raised(r.raised, "")
  /\ op' = "find_companies"
  /\ args' = [criteria |-> criteria, fuzzy_match |-> fuzzy_match, threshold |-> threshold,
              fault |-> fault]
  /\ nCalls' = nCalls + 1
  /\ UNCHANGED <<companies, contacts>>

\* server.py:346-353: the only validation failure is normalize_industry's format
\* error; the value is_valid_industry returns (line 349) is discarded
CouValidationRaises(company_data, test_mode, allow_custom_industry) ==
  Has(company_data, "industry") /\ normalize_raises(company_data["industry"])

\* server.py:351 and 387  data["industry"] = normalize_industry(data["industry"], test_mode)
NormalizedData(data, test_mode) ==
  IF Has(data, "industry")
  THEN [data EXCEPT !["industry"] = normalize_industry(@, test_mode)]
  ELSE data

\* server.py:359-364: best_match is the dict built at server.py:312-318, and
\* best_match.id is an attribute access on a dict: it raises while the arguments
\* of the update are evaluated, before the store is called
UpdateBestMatch(cs, found, data, issued, fault) ==
  [companies |-> cs, calls |-> issued, matches |-> found,
   outcome |-> Raised("AttributeError", "'dict' object has no attribute 'id'")]

\* server.py:367-370
CreateNew(cs, data, issued, fault) ==
  IF Len(issued) + 1 = fault
  THEN [companies |-> cs,
        calls |-> Append(issued, [call |-> "create", properties |-> data, ok |-> FALSE]),
        matches |-> <<>>,
        outcome |-> Raised("ApiException", "")]
  ELSE [companies |-> StoreCreate(cs, data),
        calls |-> Append(issued, [call |-> "create", properties |-> data, ok |-> TRUE]),
        matches |-> <<>>,
        outcome |-> Returned(RecordOf(StoreCreate(cs, data), NewId(cs)))]

\* server.py:355-370, with what find_companies gave
AfterSearch(cs, data, r, fault) ==
  IF r.raised # ""
  THEN [companies |-> cs, calls |-> r.calls, matches |-> <<>>,
        outcome |-> Raised(r.raised, "")]
  ELSE IF r.matches # <<>> THEN UpdateBestMatch(cs, r.matches, data, r.calls, fault)
  ELSE CreateNew(cs, data, r.calls, fault)

\* server.py:221  threshold: float = 0.7
DefaultThreshold == Rat(7, 10)

\* the variant that does not hand match_threshold on to find_companies
SearchWithDefaultThreshold(cs, data, fuzzy_match, match_threshold, fault) ==
  AfterSearch(cs, data, find_companies(cs, data, fuzzy_match, DefaultThreshold, fault),
              fault)

\* server.py:355-370, with the normalized company data
SearchThenWrite(cs, data, fuzzy_match, match_threshold, fault) ==
  AfterSearch(cs, data, find_companies(cs, data, fuzzy_match, match_threshold, fault),
              fault)

\* server.py:333-370: the store afterwards, the store calls, the matches and the outcome
create_or_update_company(cs, company_data, fuzzy_match, match_threshold, test_mode, allow_custom_industry, fault) ==
  IF CouValidationRaises(company_data, test_mode, allow_custom_industry)
  THEN [companies |-> cs, calls |-> <<>>, matches |-> <<>>,
        outcome |-> Raised("ValueError", "Industry validation failed")]
  ELSE SearchThenWrite(cs, NormalizedData(company_data, test_mode), fuzzy_match,
                       match_threshold, fault)

CreateOrUpdateCompany(company_data, fuzzy_match, match_threshold, test_mode, allow_custom_industry, fault) ==
  /\ CanServe
  /\ \E r \in {create_or_update_company(companies, company_data, fuzzy_match,
                                        match_threshold, test_mode,
                                        allow_custom_industry, fault)} :
       /\ Len(r.companies) <= MaxCompanies
       /\ companies' = r.companies
       /\ calls' = r.calls
       /\ matches' = r.matches
       /\ outcome' = r.outcome
  /\ op' = "create_or_update_company"
  /\ args' = [company_data |-> company_data, fuzzy_match |-> fuzzy_match,
              match_threshold |-> match_threshold, test_mode |-> test_mode,
              allow_custom_industry |-> allow_custom_industry, fault |-> fault]
  /\ nCalls' = nCalls + 1
  /\ UNCHANGED contacts

\* the variant that only checks the format, as create_or_update_company does
UpdateValidationFormatOnly(properties, test_mode, allow_custom_industry) ==
  Has(properties, "industry") /\ normalize_raises(properties["industry"])

\* server.py:382-384
UpdateValidationRaises(properties, test_mode, allow_custom_industry) ==
  /\ Has(properties, "industry")
  /\ ~is_valid_industry(properties["industry"], test_mode, allow_custom_industry)

\* the variant without the try/except around the store call
UpdateStoredPropagates(cs, company_id, props, fault) ==
  IF fault = 1 \/ ~KnownId(cs, company_id)
  THEN [companies |-> cs,
        calls |-> <<[call |-> "update", id |-> company_id, properties |-> props,
                     ok |-> FALSE]>>,
        outcome |-> Raised("ApiException", "")]
  ELSE [companies |-> StoreUpdate(cs, company_id, props),
        calls |-> <<[call |-> "update", id |-> company_id, properties |-> props,
                     ok |-> TRUE]>>,
        outcome |-> Returned([id |-> company_id,
                              properties |-> RecordOf(StoreUpdate(cs, company_id, props),
                                                      company_id).properties])]

\* server.py:390-397: the update and what is made of its result or its exception
UpdateStored(cs, company_id, props, fault) ==
  IF fault = 1 \/ ~KnownId(cs, company_id)
  THEN [companies |-> cs,
        calls |-> <<[call |-> "update", id |-> company_id, properties |-> props,
                     ok |-> FALSE]>>,
        outcome |-> Returned([error |-> "ApiException"])]
  ELSE [companies |-> StoreUpdate(cs, company_id, props),
        calls |-> <<[call |-> "update", id |-> company_id, properties |-> props,
                     ok |-> TRUE]>>,
        outcome |-> Returned([id |-> company_id,
                              properties |-> RecordOf(StoreUpdate(cs, company_id, props),
                                                      company_id).properties])]

\* server.py:372-397: the store afterwards, the store calls and the outcome; the
\* value returned is the JSON object
update_company(cs, company_id, properties, test_mode, allow_custom_industry, fault) ==
  IF UpdateValidationRaises(properties, test_mode, allow_custom_industry)
  THEN [companies |-> cs, calls |-> <<>>,
        outcome |-> Raised("ValueError", "Invalid industry")]
  ELSE UpdateStored(cs, company_id, NormalizedData(properties, test_mode), fault)

UpdateCompany(company_id, properties, test_mode, allow_custom_industry, fault) ==
  /\ CanServe
  /\ \E r \in {update_company(companies, company_id, properties, test_mode,
                              allow_custom_industry, fault)} :
       /\ companies' = r.companies
       /\ calls' = r.calls
       /\ outcome' = r.outcome
  /\ matches' = <<>>
  /\ op' = "update_company"
  /\ args' = [company_id |-> company_id, properties |-> properties,
              test_mode |-> test_mode, allow_custom_industry |-> allow_custom_industry,
              fault |-> fault]
  /\ nCalls' = nCalls + 1
  /\ UNCHANGED contacts

(***************************************************************************)
(* server.py:477-533, the contact operations                               *)
(***************************************************************************)
\* contacts.search_api.do_search with the filter email EQ value: existing.total
SearchTotal(cts, email) ==
  Cardinality({i \in 1..Len(cts) :
                 Has(cts[i].properties, "email") /\ cts[i].properties["email"] = email})

RECURSIVE MaxIdOf(_)
MaxIdOf(cts) == IF cts = <<>> THEN 0 ELSE Max2(Head(cts).id, MaxIdOf(Tail(cts)))

\* contacts.basic_api.create({"properties": p}): the record the store adds
NewContact(cts, p) == [id |-> MaxIdOf(cts) + 1, properties |-> p]

\* server.py:496-499, the create call after the calls issued
CreateContactStored(cts, properties, issued, fault) ==
  IF Len(issued) + 1 = fault
  THEN [contacts |-> cts,
        calls |-> Append(issued, [call |-> "contact_create", properties |-> properties,
                                  ok |-> FALSE]),
        outcome |-> Returned([error |-> "ApiException"])]
  ELSE [contacts |-> Append(cts, NewContact(cts, properties)),
        calls |-> Append(issued, [call |-> "contact_create", properties |-> properties,
                                  ok |-> TRUE]),
        outcome |-> Returned(NewContact(cts, properties))]

\* the variant that creates the contact whatever the search reports
CreateContactUnchecked(cts, properties, fault) ==
  CreateContactStored(cts, properties,
                      <<[call |-> "contact_search", email |-> properties["email"],
                         ok |-> fault # 1]>>,
                      IF fault = 1 THEN 0 ELSE fault)

\* server.py:489-494, the search for a contact with the email
CreateContactSearched(cts, properties, fault) ==
  IF fault = 1
  THEN [contacts |-> cts,
        calls |-> <<[call |-> "contact_search", email |-> properties["email"],
                     ok |-> FALSE]>>,
        outcome |-> Returned([error |-> "ApiException"])]
  ELSE IF SearchTotal(cts, properties["email"]) > 0
  THEN [contacts |-> cts,
        calls |-> <<[call |-> "contact_search", email |-> properties["email"],
                     ok |-> TRUE]>>,
        outcome |-> Returned([error |-> "already exists"])]
  ELSE CreateContactStored(cts, properties,
                           <<[call |-> "contact_search", email |-> properties["email"],
                              ok |-> TRUE]>>,
                           fault)

\* server.py:477-501
create_contact(cts, properties, fault) ==
  IF Has(properties, "email") /\ Truthy(properties["email"])
  THEN CreateContactSearched(cts, properties, fault)
  ELSE CreateContactStored(cts, properties, <<>>, fault)

CreateContact(properties, fault) ==
  /\ CanServe
  /\ \E r \in {create_contact(contacts, properties, fault)} :
       /\ Len(r.contacts) <= MaxContacts
       /\ contacts' = r.contacts
       /\ calls' = r.calls
       /\ outcome' = r.outcome
  /\ matches' = <<>>
  /\ op' = "create_contact"
  /\ args' = [properties |-> properties, fault |-> fault]
  /\ nCalls' = nCalls + 1
  /\ UNCHANGED companies

\* server.py:503-519
update_contact(cts, contact_id, properties, fault) ==
  IF fault = 1 \/ ~KnownId(cts, contact_id)
  THEN [contacts |-> cts,
        calls |-> <<[call |-> "contact_update", id |-> contact_id,
                     properties |-> properties, ok |-> FALSE]>>,
        outcome |-> Returned([error |-> "ApiException"])]
  ELSE [contacts |-> StoreUpdate(cts, contact_id, properties),
        calls |-> <<[call |-> "contact_update", id |-> contact_id,
                     properties |-> properties, ok |-> TRUE]>>,
        outcome |-> Returned(RecordOf(StoreUpdate(cts, contact_id, properties),
                                      contact_id))]

UpdateContact(contact_id, properties, fault) ==
  /\ CanServe
  /\ \E r \in {update_contact(contacts, contact_id, properties, fault)} :
       /\ contacts' = r.contacts
       /\ calls' = r.calls
       /\ outcome' = r.outcome
  /\ matches' = <<>>
  /\ op' = "update_contact"
  /\ args' = [contact_id |-> contact_id, properties |-> properties, fault |-> fault]
  /\ nCalls' = nCalls + 1
  /\ UNCHANGED companies

\* contacts.basic_api.archive(contact_id): the store afterwards
StoreArchive(cts, contact_id) == SelectSeq(cts, LAMBDA c : c.id # contact_id)

\* server.py:521-533
delete_contact(cts, contact_id, fault) ==
  IF fault = 1 \/ ~KnownId(cts, contact_id)
  THEN [contacts |-> cts,
        calls |-> <<[call |-> "contact_archive", id |-> contact_id, ok |-> FALSE]>>,
        outcome |-> Returned([error |-> "ApiException"])]
  ELSE [contacts |-> StoreArchive(cts, contact_id),
        calls |-> <<[call |-> "contact_archive", id |-> contact_id, ok |-> TRUE]>>,
        outcome |-> Returned([success |-> TRUE])]

DeleteContact(contact_id, fault) ==
  /\ CanServe
  /\ \E r \in {delete_contact(contacts, contact_id, fault)} :
       /\ contacts' = r.contacts
       /\ calls' = r.calls
       /\ outcome' = r.outcome
  /\ matches' = <<>>
  /\ op' = "delete_contact"
  /\ args' = [contact_id |-> contact_id, fault |-> fault]
  /\ nCalls' = nCalls + 1
  /\ UNCHANGED companies

(***************************************************************************)
(* server.py:399-475  batch_update_companies                               *)
(***************************************************************************)
\* the variant that only checks the format of the industry
ItemValidFormatOnly(update, test_mode, allow_custom_industry) ==
  ~(Has(update.properties, "industry") /\ normalize_raises(update.properties["industry"]))

\* server.py:415-416: an update passes when it has no industry or a valid one
ItemValid(update, test_mode, allow_custom_industry) ==
  ~UpdateValidationRaises(update.properties, test_mode, allow_custom_industry)

\* the variant without the continue after the error entry: the update that fails
\* validation becomes a batch input all the same
ValidateOneWithoutContinue(acc, update, test_mode, allow_custom_industry) ==
  [calls        |-> Append(acc.calls,
                           [call |-> "validate", company_id |-> update.company_id,
                            ok |-> ~UpdateValidationRaises(update.properties, test_mode,
                                                           allow_custom_industry)]),
   results      |-> IF UpdateValidationRaises(update.properties, test_mode,
                                              allow_custom_industry)
                    THEN Append(acc.results, [company_id |-> update.company_id,
                                              error |-> "Invalid industry"])
                    ELSE acc.results,
   batch_inputs |-> Append(acc.batch_inputs,
                           [id |-> update.company_id, properties |-> update.properties])]

\* server.py:414-434, one turn of the first loop: the update is validated, and
\* gets an error entry or becomes a batch input
ValidateOne(acc, update, test_mode, allow_custom_industry) ==
  IF ItemValid(update, test_mode, allow_custom_industry)
  THEN [calls        |-> Append(acc.calls, [call |-> "validate",
                                            company_id |-> update.company_id,
                                            ok |-> TRUE]),
        results      |-> acc.results,
        batch_inputs |-> Append(acc.batch_inputs,
                                [id |-> update.company_id,
                                 properties |-> NormalizedData(update.properties,
                                                               test_mode)])]
  ELSE [calls        |-> Append(acc.calls, [call |-> "validate",
                                            company_id |-> update.company_id,
                                            ok |-> FALSE]),
        results      |-> Append(acc.results, [company_id |-> update.company_id,
                                              error |-> "Invalid industry"]),
        batch_inputs |-> acc.batch_inputs]

\* server.py:413-434, the turns of the first loop for the updates lo..hi, in
\* order: those of the first half, then those of the second
RECURSIVE ValidateRange(_, _, _, _, _, _)
ValidateRange(acc, updates, lo, hi, test_mode, allow_custom_industry) ==
  IF lo > hi \/ Len(acc.calls) # lo - 1 THEN acc
  ELSE IF lo = hi THEN ValidateOne(acc, updates[lo], test_mode, allow_custom_industry)
  ELSE ValidateRange(ValidateRange(acc, updates, lo, (lo + hi) \div 2, test_mode,
                                   allow_custom_industry),
                     updates, (lo + hi) \div 2 + 1, hi, test_mode, allow_custom_industry)

\* server.py:413-434, the first loop
ValidateAll(acc, updates, test_mode, allow_custom_industry) ==
  ValidateRange(acc, updates, 1, Len(updates), test_mode, allow_custom_industry)

\* server.py:438  range(0, len(batch_inputs), 100)
NumGroups(inputs) == (Len(inputs) + BatchSize - 1) \div BatchSize

\* server.py:439  batch_inputs[i:i + 100], for the g-th i
Group(inputs, g) ==
  SubSeq(inputs, (g - 1) * BatchSize + 1, Min2(g * BatchSize, Len(inputs)))

\* the properties of a record after the updates of items, in order
RECURSIVE MergeAll(_, _)
MergeAll(properties, items) ==
  IF items = <<>> THEN properties
  ELSE MergeAll(Merge(properties, Head(items).properties), Tail(items))

\* companies.batch_api.update({"inputs": batch}) that does not raise: the store
\* applies the inputs in order, those with an id it holds
BulkApply(cs, batch) ==
  [i \in 1..Len(cs) |->
     [cs[i] EXCEPT !.properties =
        MergeAll(@, SelectSeq(batch, LAMBDA b : b.id = cs[i].id))]]

\* server.py:444-455: one result for each status of the bulk call's answer; the
\* store answers with one status for each input, 200 for an id it holds
BulkResults(cs, after, batch) ==
  [i \in 1..Len(batch) |->
     IF KnownId(cs, batch[i].id)
     THEN [company_id |-> batch[i].id, success |-> TRUE,
           properties |-> RecordOf(after, batch[i].id).properties]
     ELSE [company_id |-> batch[i].id, error |-> "Update failed"]]

\* server.py:459-473: one item of a group whose bulk call failed; st is the store,
\* the calls and the results so far and n the number of store calls so far
UpdateOne(st, item, faults) ==
  IF (st.n + 1) \in faults \/ ~KnownId(st.companies, item.id)
  THEN [companies |-> st.companies,
        calls |-> Append(st.calls, [call |-> "update", id |-> item.id,
                                    properties |-> item.properties, ok |-> FALSE]),
        results |-> Append(st.results, [company_id |-> item.id, error |-> "ApiException"]),
        n |-> st.n + 1]
  ELSE [companies |-> StoreUpdate(st.companies, item.id, item.properties),
        calls |-> Append(st.calls, [call |-> "update", id |-> item.id,
                                    properties |-> item.properties, ok |-> TRUE]),
        results |-> Append(st.results,
                           [company_id |-> item.id, success |-> TRUE,
                            properties |-> RecordOf(StoreUpdate(st.companies, item.id,
                                                                item.properties),
                                                    item.id).properties]),
        n |-> st.n + 1]

\* the variant that gives the group up at the first individual update that fails
RECURSIVE FallbackUntilFailure(_, _, _, _)
FallbackUntilFailure(st, batch, first, faults) ==
  IF st.n - first >= Len(batch) \/ (st.n > first /\ ~st.calls[Len(st.calls)].ok) THEN st
  ELSE FallbackUntilFailure(UpdateOne(st, batch[st.n - first + 1], faults), batch, first,
                            faults)

\* server.py:458-473, the items lo..hi of the group, one after the other: those of
\* the first half, then those of the second; first is the number of store calls
\* when the first item of the group is due, so the calls since tell the item in turn
RECURSIVE FallbackRange(_, _, _, _, _, _)
FallbackRange(st, batch, first, lo, hi, faults) ==
  IF lo > hi \/ st.n - first # lo - 1 THEN st
  ELSE IF lo = hi THEN UpdateOne(st, batch[lo], faults)
  ELSE FallbackRange(FallbackRange(st, batch, first, lo, (lo + hi) \div 2, faults),
                     batch, first, (lo + hi) \div 2 + 1, hi, faults)

\* server.py:458-473: every item of the group
FallbackItems(st, batch, first, faults) ==
  FallbackRange(st, batch, first, 1, Len(batch), faults)

\* server.py:440-455: the bulk call answered
BulkAnswered(st, batch) ==
  [companies |-> BulkApply(st.companies, batch),
   calls |-> Append(st.calls, [call |-> "batch_update", inputs |-> batch, ok |-> TRUE]),
   results |-> st.results \o BulkResults(st.companies, BulkApply(st.companies, batch),
                                         batch),
   n |-> st.n + 1]

\* server.py:456: the bulk call raised
BulkRaised(st, batch) ==
  [companies |-> st.companies,
   calls |-> Append(st.calls, [call |-> "batch_update", inputs |-> batch, ok |-> FALSE]),
   results |-> st.results,
   n |-> st.n + 1]

\* server.py:439-473, one group
ProcessGroup(st, batch, faults) ==
  IF (st.n + 1) \in faults
  THEN FallbackItems(BulkRaised(st, batch), batch, st.n + 1, faults)
  ELSE BulkAnswered(st, batch)

\* server.py:438-473, the groups from the g-th on
RECURSIVE ProcessGroups(_, _, _, _)
ProcessGroups(st, inputs, g, faults) ==
  IF g > NumGroups(inputs) THEN st
  ELSE ProcessGroups(ProcessGroup(st, Group(inputs, g), faults), inputs, g + 1, faults)

\* server.py:436-475, with what the first loop gave
AfterValidation(cs, v, faults) ==
  ProcessGroups([companies |-> cs, calls |-> v.calls, results |-> v.results, n |-> 0],
                v.batch_inputs, 1, faults)

\* server.py:399-475: faults are the positions of the store calls that raise
batch_update_companies(cs, updates, test_mode, allow_custom_industry, faults) ==
  AfterValidation(cs,
                  ValidateAll([calls |-> <<>>, results |-> <<>>, batch_inputs |-> <<>>],
                              updates, test_mode, allow_custom_industry),
                  faults)

BatchUpdateCompanies(updates, test_mode, allow_custom_industry, faults) ==
  /\ CanServe
  /\ \E r \in {batch_update_companies(companies, updates, test_mode,
                                      allow_custom_industry, faults)} :
       /\ companies' = r.companies
       /\ calls' = r.calls
       /\ outcome' = Returned(r.results)
  /\ matches' = <<>>
  /\ op' = "batch_update_companies"
  /\ args' = [updates |-> updates, test_mode |-> test_mode,
              allow_custom_industry |-> allow_custom_industry, faults |-> faults]
  /\ nCalls' = nCalls + 1
  /\ UNCHANGED contacts

(***************************************************************************)
(* The pure functions, called on their own: industries.py and the two      *)
(* static helpers of HubSpotClient.                                        *)
(***************************************************************************)
\* industries.py:174-238: what a call of normalize_industry hands its caller, the
\* ValueError of line 196 or the value of line 238
normalize_industry_call(industry, test_mode) ==
  IF normalize_raises(industry)
  THEN Raised("ValueError", "Industry must be uppercase with underscores")
  ELSE Returned(normalize_industry(industry, test_mode))

\* the variant without the except clause: the format error reaches the caller
ValidityOfUncaught(normalized, test_mode, allow_custom) ==
  IF normalized.kind = "raise" THEN normalized
  ELSE Returned(IsApproved(normalized.value, test_mode, allow_custom))

\* industries.py:253-265: the try block around normalize_industry; a ValueError
\* becomes False, a value goes on to the membership test
ValidityOf(normalized, test_mode, allow_custom) ==
  IF normalized.kind = "raise" THEN Returned(FALSE)
  ELSE Returned(IsApproved(normalized.value, test_mode, allow_custom))

\* industries.py:240-265: what a call of is_valid_industry hands its caller
is_valid_industry_call(industry, test_mode, allow_custom) ==
  IF IsBlank(industry) THEN Returned(FALSE)
  ELSE ValidityOf(normalize_industry_call(industry, test_mode), test_mode, allow_custom)

\* industries.py:174-238
NormalizeIndustry(industry, test_mode) ==
  /\ CanServe
  /\ outcome' = normalize_industry_call(industry, test_mode)
  /\ op' = "normalize_industry"
  /\ args' = [industry |-> industry, test_mode |-> test_mode]
  /\ calls' = <<>>
  /\ matches' = <<>>
  /\ nCalls' = nCalls + 1
  /\ UNCHANGED <<companies, contacts>>

\* industries.py:240-265
IsValidIndustry(industry, test_mode, allow_custom) ==
  /\ CanServe
  /\ outcome' = is_valid_industry_call(industry, test_mode, allow_custom)
  /\ op' = "is_valid_industry"
  /\ args' = [industry |-> industry, test_mode |-> test_mode,
              allow_custom |-> allow_custom]
  /\ calls' = <<>>
  /\ matches' = <<>>
  /\ nCalls' = nCalls + 1
  /\ UNCHANGED <<companies, contacts>>

\* server.py:62-97: levenshtein_ratio returns a float for every pair of strings
LevenshteinRatio(s1, s2) ==
  /\ CanServe
  /\ outcome' = Returned(levenshtein_ratio(s1, s2))
  /\ op' = "levenshtein_ratio"
  /\ args' = [s1 |-> s1, s2 |-> s2]
  /\ calls' = <<>>
  /\ matches' = <<>>
  /\ nCalls' = nCalls + 1
  /\ UNCHANGED <<companies, contacts>>

\* server.py:20-60: _match_domains returns a float for every pair of domains
MatchDomains(criteria_domain, company_domain) ==
  /\ CanServe
  /\ outcome' = Returned(_match_domains(criteria_domain, company_domain))
  /\ op' = "_match_domains"
  /\ args' = [criteria_domain |-> criteria_domain, company_domain |-> company_domain]
  /\ calls' = <<>>
  /\ matches' = <<>>
  /\ nCalls' = nCalls + 1
  /\ UNCHANGED <<companies, contacts>>


\* server.py:99-219: what a call of _calculate_match_score hands its caller: the
\* AttributeError of line 124 for a criteria name that is None, the ValueError of
\* normalize_industry at lines 162-163, or the score
_calculate_match_score_call(company, criteria, fuzzy_match) ==
  IF ~DetailedRaises(company, criteria, fuzzy_match)
  THEN Returned(_calculate_match_score(company, criteria, fuzzy_match))
  ELSE IF DetNameUsed(company.properties, criteria) /\ criteria["name"] = None
  THEN Raised("AttributeError", "'NoneType' object has no attribute 'lower'")
  ELSE Raised("ValueError", "Industry must be uppercase with underscores")

\* server.py:99-219: the detailed scorer applied to one record
CalculateMatchScore(company, criteria, fuzzy_match) ==
  /\ CanServe
  /\ outcome' = _calculate_match_score_call(company, criteria, fuzzy_match)
  /\ op' = "_calculate_match_score"
  /\ args' = [company |-> company, criteria |-> criteria, fuzzy_match |-> fuzzy_match]
  /\ calls' = <<>>
  /\ matches' = <<>>
  /\ nCalls' = nCalls + 1
  /\ UNCHANGED <<companies, contacts>>
(***************************************************************************)
(* The inputs the operations are called with, and the stores they start    *)
(* from.                                                                   *)
(***************************************************************************)
sAcme     == <<"A","c","m","e">>
sAcmeCorp == <<"A","c","m","e"," ","C","o","r","p">>
sAcne     == <<"a","c","n","e">>
sZeta     == <<"Z","e","t","a">>
dAcme     == <<"a","c","m","e",".","c","o","m">>
dWwwAcme  == <<"h","t","t","p","s",":","/","/","w","w","w",".","A","c","m","e",".","c","o","m","/">>
dShopAcme == <<"s","h","o","p",".","a","c","m","e",".","c","o","m">>
dZeta     == <<"z","e","t","a",".","i","o">>
iBanking  == <<"B","A","N","K","I","N","G">>
iBankingMixed == <<"B","a","n","k","i","n","g">>
iRetail   == <<"R","E","T","A","I","L">>
iLaw      == <<"L","a","w">>
iCustom   == <<"I","N","V","A","L","I","D","_","I","N","D","U","S","T","R","Y">>
iDigits   == <<"1","2","3">>
iEmpty    == <<>>
eAnn      == <<"a","n","n","@","x",".","i","o">>
eBob      == <<"b","o","b","@","x",".","i","o">>
sAnn      == <<"A","n","n">>

\* the stores a behaviour starts from
InitialStores ==
  {<<>>,
   <<[id |-> 1, properties |-> [name |-> sAcme, domain |-> dAcme, industry |-> iBanking]]>>,
   <<[id |-> 1, properties |-> [name |-> sAcmeCorp, domain |-> dAcme]],
     [id |-> 2, properties |-> [name |-> sAcme, industry |-> iRetail]]>>,
   <<[id |-> 1, properties |-> [name |-> sZeta, domain |-> dZeta, industry |-> None]],
     [id |-> 2, properties |-> [name |-> sAcmeCorp, domain |-> dShopAcme,
                                industry |-> iBanking]],
     [id |-> 3, properties |-> [name |-> sAcme, domain |-> None, industry |-> iDigits]]>>}

\* criteria of find_companies and company data of create_or_update_company
CompanyData ==
  {[name |-> sAcme],
   [name |-> sAcne],
   [name |-> sAcme, domain |-> dWwwAcme],
   [name |-> sAcmeCorp, industry |-> iBankingMixed],
   [name |-> sZeta, industry |-> iCustom],
   [name |-> sAcme, industry |-> iDigits],
   [domain |-> dAcme, industry |-> iLaw],
   [name |-> sZeta, domain |-> dZeta, industry |-> iEmpty]}

Thresholds == {Rat(8, 10), Rat(5, 10)}

\* the position of the failing store call, 0 for none
Faults == 0..MaxFaultIdx

\* the same for an operation that makes one store call: it fails or it does not
SingleCallFaults == 0..1

\* properties of update_company
UpdateProperties ==
  {[name |-> sZeta],
   [industry |-> iRetail],
   [industry |-> iLaw],
   [industry |-> iCustom],
   [industry |-> iDigits],
   [industry |-> iEmpty]}

CompanyIds == 1..UnknownId

\* the contacts a behaviour starts from
InitialContacts ==
  {<<[id |-> 1, properties |-> [email |-> eAnn, firstname |-> sAnn]]>>}

\* properties of create_contact and update_contact
ContactProperties ==
  {[email |-> eAnn, firstname |-> sAnn],
   [email |-> eBob],
   [firstname |-> sAnn],
   [email |-> iEmpty, firstname |-> sAnn]}

ContactIds == 1..(MaxContacts + 1)

\* properties of the updates of a short list
BatchProperties ==
  {[industry |-> iRetail],
   [industry |-> iCustom]}

\* the updates at position i of a short list: for an id the store may hold, with
\* each kind of properties, and for an id it never holds, with a valid industry
ItemsAt(i) ==
  {[company_id |-> i, properties |-> pr] : pr \in BatchProperties}
    \cup {[company_id |-> UnknownId + i, properties |-> [industry |-> iRetail]]}

RECURSIVE ListsOfLen(_)
ListsOfLen(n) ==
  IF n = 0 THEN {<<>>}
  ELSE {Append(l, u) : l \in ListsOfLen(n - 1), u \in ItemsAt(n)}

ShortUpdates == UNION {ListsOfLen(n) : n \in 0..MaxUpdates}

\* in a long list every InvalidEvery-th update has an industry outside the vocabulary
InvalidEvery == 7

\* a list of n updates with the ids 1..n; with every > 0, each every-th is invalid
LongList(n, every) ==
  [i \in 1..n |->
     [company_id |-> i,
      properties |-> IF every > 0 /\ i % every = 0 THEN [industry |-> iCustom]
                     ELSE IF i % 2 = 0 THEN [name |-> sZeta]
                     ELSE [industry |-> iRetail]]]

\* lists that fill one group, spill into a second, and into a third
LongUpdates ==
  {LongList(BatchSize, 0), LongList(BatchSize + 1, 0), LongList(2 * BatchSize + 1, 0),
   LongList(2 * BatchSize + 1, InvalidEvery)}

\* the positions of the failing store calls of a batch
BatchFaults == SUBSET (1..MaxFaultIdx) \cup {{1, BatchSize + 2}}

Init ==
  /\ companies \in InitialStores
  /\ contacts \in InitialContacts
  /\ nCalls = 0
  /\ op = "none"
  /\ args = <<>>
  /\ calls = <<>>
  /\ matches = <<>>
  /\ outcome = NoOutcome

Next ==
  \/ Respond
  \/ \E c \in CompanyData, f \in BOOLEAN, t \in Thresholds, p \in Faults :
       FindCompanies(c, f, t, p)
  \/ \E d \in CompanyData, f \in BOOLEAN, t \in Thresholds, tm \in BOOLEAN,
        ac \in BOOLEAN, p \in Faults :
       CreateOrUpdateCompany(d, f, t, tm, ac, p)
  \/ \E id \in CompanyIds, pr \in UpdateProperties, tm \in BOOLEAN, ac \in BOOLEAN,
        p \in SingleCallFaults :
       UpdateCompany(id, pr, tm, ac, p)
  \/ \E pr \in ContactProperties, p \in Faults : CreateContact(pr, p)
  \/ \E id \in ContactIds, pr \in ContactProperties, p \in SingleCallFaults :
       UpdateContact(id, pr, p)
  \/ \E id \in ContactIds, p \in SingleCallFaults : DeleteContact(id, p)

Spec == Init /\ [][Next]_vars

\* the batch operation, served first from the stores a behaviour starts from
NextBatch ==
  \/ Respond
  \/ /\ nCalls = 0
     /\ \E u \in ShortUpdates, tm \in BOOLEAN, ac \in BOOLEAN, fs \in BatchFaults :
          BatchUpdateCompanies(u, tm, ac, fs)
  \/ /\ nCalls = 0
     /\ \E u \in LongUpdates, fs \in BatchFaults :
          BatchUpdateCompanies(u, FALSE, FALSE, fs)

SpecBatch == Init /\ [][NextBatch]_vars

(***************************************************************************)
(* The inputs of the industry functions.                                   *)
(***************************************************************************)
iComputerSoftware == <<"C","o","m","p","u","t","e","r","-","S","o","f","t","w","a","r","e">>
iComputerSpaced   == <<"C","o","m","p","u","t","e","r"," ","-"," ","S","o","f","t","w","a","r","e">>
iComputerPadded   == <<" ","c","o","m","p","u","t","e","r"," ","s","o","f","t","w","a","r","e"," ">>
iInvalidMixed     == <<"I","n","v","a","l","i","d","-","I","n","d","u","s","t","r","y">>
iTech             == <<"T","E","C","H">>
iManufacturing    == <<"M","a","n","u","f","a","c","t","u","r","i","n","g">>
iCustomIndustry   == <<"C","U","S","T","O","M","_","I","N","D","U","S","T","R","Y">>
iCafe             == <<"c","a","f","é">>
iWideGap          == <<"a"," "," "," ","b">>
iUnderscores      == <<"_","a","_","_","b","_">>
iItServices       == <<"i","t"," ","-"," ","s","e","r","v","i","c","e","s">>
iTab              == <<"a","\t","b">>

\* a lowercase letter, an uppercase letter (together an alias key, "iT"), the
\* three separators, a digit and a cased letter outside ASCII
IndustryAlphabet == {"i", "T", "-", " ", "_", "1", "é"}

\* the longest string enumerated over an alphabet
MaxLen == 3

RECURSIVE StringsOfLen(_, _)
StringsOfLen(alphabet, n) ==
  IF n = 0 THEN {<<>>}
  ELSE {Append(s, c) : s \in StringsOfLen(alphabet, n - 1), c \in alphabet}

StringsUpTo(alphabet, n) == UNION {StringsOfLen(alphabet, k) : k \in 0..n}

\* the values the tests and the tools pass, the two vocabularies, and the keys
\* and targets of the two alias tables
IndustrySamples ==
  {None, iBanking, iBankingMixed, iRetail, iLaw, iCustom, iDigits, iEmpty,
   iComputerSoftware, iComputerSpaced, iComputerPadded, iInvalidMixed, iTech,
   iManufacturing, iCustomIndustry, iCafe, iWideGap, iUnderscores, iItServices, iTab}
    \cup TEST_INDUSTRIES \cup APPROVED_INDUSTRIES
    \cup {p[1] : p \in test_mode_aliases \cup production_aliases}
    \cup {p[2] : p \in test_mode_aliases \cup production_aliases}

IndustryInputs == StringsUpTo(IndustryAlphabet, MaxLen) \cup IndustrySamples

\* company data and properties whose industry is given in mixed case
MixedCaseIndustries == {iComputerSoftware, iInvalidMixed, iBankingMixed}

MixedCaseData == {[name |-> sAcme, industry |-> i] : i \in MixedCaseIndustries}

MixedCaseProperties == {[industry |-> i] : i \in MixedCaseIndustries}

\* lists of one or two updates, each with an industry in mixed case
MixedCaseUpdates ==
  {<<[company_id |-> 1, properties |-> p]>> : p \in MixedCaseProperties}
    \cup {<<[company_id |-> 1, properties |-> p], [company_id |-> 2, properties |-> q]>> :
            p \in MixedCaseProperties, q \in MixedCaseProperties}

\* the store the operations on mixed-case industries start from
InitIndustry == Init /\ Len(companies) = 1

\* the industry functions called on their own, and the operations that call them;
\* the functions depend on no state, and are called in the state a behaviour
\* starts from
NextIndustry ==
  \/ Respond
  \/ /\ nCalls = 0
     /\ \E i \in IndustryInputs, tm \in BOOLEAN : NormalizeIndustry(i, tm)
  \/ /\ nCalls = 0
     /\ \E i \in IndustryInputs, tm \in BOOLEAN, ac \in BOOLEAN :
          IsValidIndustry(i, tm, ac)
  \/ \E d \in MixedCaseData, tm \in BOOLEAN, ac \in BOOLEAN, p \in Faults :
       CreateOrUpdateCompany(d, TRUE, DefaultThreshold, tm, ac, p)
  \/ \E id \in CompanyIds, pr \in MixedCaseProperties, tm \in BOOLEAN, ac \in BOOLEAN,
        p \in SingleCallFaults :
       UpdateCompany(id, pr, tm, ac, p)
  \/ \E u \in MixedCaseUpdates, tm \in BOOLEAN, ac \in BOOLEAN :
       BatchUpdateCompanies(u, tm, ac, {})

SpecIndustry == InitIndustry /\ [][NextIndustry]_vars

(***************************************************************************)
(* The inputs of the similarity primitive and of the domain matcher.       *)
(***************************************************************************)
dWwwOnly   == <<"w","w","w",".">>
dSlash     == <<"/">>
dAcmeBare  == <<"a","c","m","e">>
dAcmeUpper == <<"W","W","W",".","A","C","M","E",".","C","O","M">>
dAcmes     == <<"a","c","m","e","s",".","i","o">>
dAcmez     == <<"a","c","m","e","z",".","c","o","m">>
dAbcdef    == <<"a","b","c","d","e","f",".","c","o","m">>
dAbcdeg    == <<"a","b","c","d","e","g",".","i","o">>
dAcmePath  == <<"h","t","t","p",":","/","/","a","c","m","e",".","c","o","m","/","p","a","t","h","?","x">>
dAcmeDot   == <<"a","c","m","e",".","c","o","m",".">>

\* a domain written with a scheme, with a leading www., with a trailing slash, in
\* upper case: the sixteen ways of writing it
WithScheme(d) == <<"h","t","t","p","s",":","/","/">> \o d
WithWww(d) == <<"w","w","w",".">> \o d
WithSlash(d) == d \o <<"/">>
Written(d, scheme, www, slash, upper) ==
  LET w == IF www THEN WithWww(d) ELSE d
      s == IF scheme THEN WithScheme(w) ELSE w
      t == IF slash THEN WithSlash(s) ELSE s
  IN  IF upper THEN PyUpper(t) ELSE t
Variants(d) ==
  {Written(d, scheme, www, slash, upper) :
     scheme \in BOOLEAN, www \in BOOLEAN, slash \in BOOLEAN, upper \in BOOLEAN}

\* the domains written in these ways
PlainDomains == {dAcme, dShopAcme}

\* every string of up to MaxLen characters over two letters, None, and names of
\* the stores
SimilarityInputs ==
  StringsUpTo({"a", "c"}, MaxLen) \cup {None, sAcme, sAcne, sZeta, sAnn}

\* every string of up to MaxLen characters over a letter and the dot, None, and
\* domains with a scheme, a www. prefix, a path, a subdomain, and first labels
\* one edit apart, and two domains in each way of writing them
DomainInputs ==
  StringsUpTo({"a", "."}, MaxLen)
    \cup {None, dAcme, dWwwAcme, dShopAcme, dZeta, dWwwOnly, dSlash, dAcmeBare,
          dAcmeUpper, dAcmes, dAcmez, dAbcdef, dAbcdeg, dAcmePath, dAcmeDot}
    \cup UNION {Variants(d) : d \in PlainDomains}

\* the two functions depend on no state: one store is enough
InitSimilarity == Init /\ companies = <<>>

NextSimilarity ==
  \/ Respond
  \/ \E s1 \in SimilarityInputs, s2 \in SimilarityInputs : LevenshteinRatio(s1, s2)
  \/ \E a \in DomainInputs, b \in DomainInputs : MatchDomains(a, b)

SpecSimilarity == InitSimilarity /\ [][NextSimilarity]_vars


(***************************************************************************)
(* The inputs of the two scorers.                                          *)
(***************************************************************************)
sAcmeCorporation == <<"A","c","m","e"," ","C","o","r","p","o","r","a","t","i","o","n">>
sAcmePadded      == <<" ","a","c","m","e"," ","c","o","r","p"," ">>
sParis           == <<"P","a","r","i","s">>
sRome            == <<"R","o","m","e">>

\* the properties of the records that are scored: every field present, a malformed
\* industry, a name only, a name that is None, a further property, a domain that
\* is None and an empty industry
ScoredProperties ==
  {[name |-> sAcmeCorporation, domain |-> dAcme, industry |-> iBanking],
   [name |-> sAcmeCorp, domain |-> dZeta, industry |-> iDigits],
   [name |-> sAcme],
   [name |-> None, domain |-> dAcme, industry |-> iRetail],
   [name |-> sAcmeCorp, domain |-> dShopAcme, industry |-> iBankingMixed, city |-> sParis],
   [name |-> sZeta, domain |-> None, industry |-> iEmpty]}

\* the criteria they are scored against
ScoringCriteria ==
  {<<>>,
   [name |-> sAcmeCorp],
   [name |-> sAcmeCorporation],
   [name |-> sAcmePadded, domain |-> dZeta, industry |-> iRetail, city |-> sRome],
   [name |-> sAcmeCorp, domain |-> dZeta],
   [name |-> sAcme, domain |-> dAcme],
   [name |-> iEmpty],
   [name |-> None],
   [industry |-> iDigits],
   [industry |-> iEmpty],
   [name |-> sAcmeCorp, industry |-> iBanking],
   [name |-> sAcne, domain |-> dWwwAcme, industry |-> iBankingMixed],
   [domain |-> dAcmes, city |-> sParis],
   [domain |-> None, industry |-> iRetail]}

\* the records with the ids the store gives them
Record(id, properties) == [id |-> id, properties |-> properties]

\* the stores find_companies scans: empty, one page, and two pages with the
\* malformed industry on the first
ScoringStores ==
  {<<>>,
   <<Record(1, [name |-> sAcmeCorporation, domain |-> dAcme, industry |-> iBanking]),
     Record(2, [name |-> sAcme])>>,
   <<Record(1, [name |-> sAcmeCorp, domain |-> dZeta, industry |-> iDigits]),
     Record(2, [name |-> sAcmeCorporation, domain |-> dAcme, industry |-> iBanking]),
     Record(3, [name |-> sAcmeCorp, domain |-> dShopAcme, industry |-> iBankingMixed,
                city |-> sParis])>>,
   <<Record(1, [name |-> None, domain |-> dAcme, industry |-> iRetail]),
     Record(2, [name |-> sZeta, domain |-> None, industry |-> iEmpty]),
     Record(3, [name |-> sAcmeCorp, domain |-> dZeta, industry |-> iDigits])>>}

ScoringThresholds == {RZero, Rat(5, 10), Rat(8, 10)}

ScoringDomains ==
  {None, iEmpty, dAcme, dWwwAcme, dShopAcme, dZeta, dAcmeUpper, dAcmes, dAcmez,
   dAbcdef, dAbcdeg}

InitScoring ==
  /\ companies \in ScoringStores
  /\ contacts \in InitialContacts
  /\ nCalls = 0
  /\ op = "none"
  /\ args = <<>>
  /\ calls = <<>>
  /\ matches = <<>>
  /\ outcome = NoOutcome

\* the two scorers and the two functions they score with
NextScoring ==
  \/ Respond
  \/ \E p \in ScoredProperties, c \in ScoringCriteria, f \in BOOLEAN :
       CalculateMatchScore(Record(1, p), c, f)
  \/ \E c \in ScoringCriteria, f \in BOOLEAN, t \in ScoringThresholds :
       FindCompanies(c, f, t, 0)
  \/ \E s1 \in SimilarityInputs, s2 \in SimilarityInputs : LevenshteinRatio(s1, s2)
  \/ \E a \in ScoringDomains, b \in ScoringDomains : MatchDomains(a, b)

SpecScoring == InitScoring /\ [][NextScoring]_vars

(***************************************************************************)
(* server.py:221-331, find_companies turn by turn of its loop: while the   *)
(* loop runs, calls holds the page requests so far, matches holds          *)
(* all_companies, and outcome is still open.                               *)
(***************************************************************************)
\* the loop has made at most this many page requests: one for each record and one
\* more
MaxPageRequests == MaxCompanies + 1

\* the variant that never takes the cursor of the page
CursorNeverTaken(cs, issued) == NoCursor

\* server.py:236, 327: after is None before the first request, then the cursor of
\* the page requested last
CursorAfter(cs, issued) ==
  IF issued = <<>> THEN NoCursor ELSE GetPage(cs, issued[Len(issued)].after).next

\* server.py:231-236: the criteria industry is normalized for the log line, which
\* raises for a malformed one; otherwise the loop is entered
StartSearch(criteria, fuzzy_match, threshold) ==
  /\ CanServe
  /\ op' = "find_companies"
  /\ args' = [criteria |-> criteria, fuzzy_match |-> fuzzy_match, threshold |-> threshold,
              fault |-> 0]
  /\ calls' = <<>>
  /\ matches' = <<>>
  /\ outcome' = IF Has(criteria, "industry") /\ normalize_raises(criteria["industry"])
                THEN Raised("ValueError", "")
                ELSE NoOutcome
  /\ nCalls' = nCalls + 1
  /\ UNCHANGED <<companies, contacts>>

\* server.py:243-323, the scan of one page: whether a name raises, and the entries
\* found.  It depends on the page and the search alone, and is laid out for every
\* page the stores deliver and every search
ScannedPages ==
  {[results |-> r, criteria |-> c, fuzzy_match |-> f, threshold |-> t,
    raises |-> \E i \in 1..Len(r) : ListingNameRaises(c, r[i].properties, f),
    found |-> IF \E i \in 1..Len(r) : ListingNameRaises(c, r[i].properties, f)
              THEN <<>>
              ELSE PageMatches(r, c, f, t)] :
     r \in {GetPage(cs, after).results : cs \in InitialStores, after \in 0..MaxCompanies},
     c \in CompanyData, f \in BOOLEAN, t \in Thresholds}

\* server.py:238-331, one turn of the loop: the page is requested; an empty page
\* ends the loop (line 241); its records are scored; a page without paging ends
\* the loop (line 326); at the end all_companies is sorted and returned
RequestPage ==
  /\ op = "find_companies"
  /\ outcome = NoOutcome
  /\ Len(calls) < MaxPageRequests
  /\ \E page \in {GetPage(companies, CursorAfter(companies, calls))} :
       \E scan \in ScannedPages :
         /\ scan.results = page.results
         /\ scan.criteria = args.criteria
         /\ scan.fuzzy_match = args.fuzzy_match
         /\ scan.threshold = args.threshold
         /\ calls' = Append(calls, [call |-> "get_page",
                                    after |-> CursorAfter(companies, calls), ok |-> TRUE])
         /\ matches' = IF page.results = <<>> THEN SortDesc(matches)
                       ELSE IF scan.raises THEN <<>>
                       ELSE IF page.next = NoCursor THEN SortDesc(matches \o scan.found)
                       ELSE matches \o scan.found
         /\ outcome' = IF page.results = <<>> THEN Returned(SortDesc(matches))
                       ELSE IF scan.raises THEN Raised("AttributeError", "")
                       ELSE IF page.next = NoCursor
                       THEN Returned(SortDesc(matches \o scan.found))
                       ELSE NoOutcome
  /\ UNCHANGED <<companies, contacts, nCalls, op, args>>

(***************************************************************************)
(* find_companies turn by turn.  The code is sequential and each page      *)
(* request returns: a loop that can take a turn takes it.                  *)
(***************************************************************************)
\* the result is handed to the caller once there is one
NextPaging ==
  \/ outcome # NoOutcome /\ Respond
  \/ \E c \in CompanyData, f \in BOOLEAN, t \in Thresholds : StartSearch(c, f, t)
  \/ RequestPage

SpecPaging == Init /\ [][NextPaging]_vars /\ WF_vars(RequestPage)

(***************************************************************************)
(* What the properties below read from a served operation.                 *)
(***************************************************************************)
Range(s) == {s[i] : i \in 1..Len(s)}

CompanyMutations == {"update", "create", "batch_update"}

\* the mutations among the calls of a trace, in order
Mutations(tr) == SelectSeq(tr, LAMBDA c : c.call \in CompanyMutations)

\* the store calls of a trace: everything but the validations of a batch
StoreCalls(tr) == SelectSeq(tr, LAMBDA c : c.call # "validate")

\* some store call of the trace failed
StoreFailed(tr) == \E i \in 1..Len(tr) : tr[i].call # "validate" /\ ~tr[i].ok

\* the search of create_or_update_company read every page of the store
SearchCompleted(tr) ==
  /\ tr # <<>>
  /\ tr[1].call = "get_page"
  /\ \A i \in 1..Len(tr) : tr[i].call = "get_page" => tr[i].ok

\* the company data create_or_update_company searches and writes with
DataOf(a) == NormalizedData(a.company_data, a.test_mode)

\* the industry of the company data is absent or valid
IndustryPasses(a) ==
  \/ ~Has(a.company_data, "industry")
  \/ is_valid_industry(a.company_data["industry"], a.test_mode, a.allow_custom_industry)

\* the ids of the records among the matches
MatchedIds(ms) == {ms[i].company.id : i \in 1..Len(ms)}

\* the ids of the records of cs that the listing scorer puts at or above the threshold
ListingIds(cs, criteria, fuzzy_match, threshold) ==
  {cs[i].id : i \in {j \in 1..Len(cs) :
     RLe(threshold, ListingScore(criteria, cs[j].properties, fuzzy_match))}}

\* the ids of the records of cs that the detailed scorer puts at or above the threshold
DetailedIds(cs, criteria, fuzzy_match, threshold) ==
  {cs[i].id : i \in {j \in 1..Len(cs) :
     RLe(threshold, _calculate_match_score(cs[j], criteria, fuzzy_match))}}

\* neither scorer raises on a record of cs
ScorersAnswer(cs, criteria, fuzzy_match) ==
  \A i \in 1..Len(cs) :
    /\ ~DetailedRaises(cs[i], criteria, fuzzy_match)
    /\ ~ListingNameRaises(criteria, cs[i].properties, fuzzy_match)

(***************************************************************************)
(* create_or_update_company                                                *)
(***************************************************************************)
\* C1: when the industry of the company data passes validation and no store call
\* fails, create_or_update_company issues exactly one mutation, as its last store
\* call after the search: an update of the top-ranked match with the given
\* properties when there is a match, a create otherwise; and it returns the record
\* the store returned.
C1_OneMutationAfterSearch ==
  (op = "create_or_update_company" /\ IndustryPasses(args) /\ args.fault = 0) =>
    /\ Len(Mutations(calls)) = 1
    /\ calls[Len(calls)].call \in CompanyMutations
    /\ outcome.kind = "return"
    /\ IF matches # <<>>
       THEN /\ calls[Len(calls)].call = "update"
            /\ calls[Len(calls)].id = matches[1].company.id
            /\ calls[Len(calls)].properties = DataOf(args)
            /\ outcome.value = RecordOf(companies, matches[1].company.id)
       ELSE /\ calls[Len(calls)].call = "create"
            /\ calls[Len(calls)].properties = DataOf(args)
            /\ outcome.value \in Range(companies)
            /\ outcome.value.properties = DataOf(args)

\* C2: create_or_update_company with a well-formed industry outside the active
\* vocabulary, custom industries not allowed, raises a validation error and issues
\* no store call.
C2_InvalidIndustryRejected ==
  (/\ op = "create_or_update_company"
   /\ Has(args.company_data, "industry")
   /\ ~IsBlank(args.company_data["industry"])
   /\ ~normalize_raises(args.company_data["industry"])
   /\ ~args.allow_custom_industry
   /\ ~is_valid_industry(args.company_data["industry"], args.test_mode, FALSE))
  => (outcome.kind = "raise" /\ outcome.exc = "ValueError" /\ calls = <<>>)

C4_FilteredAndSorted ==
  (op = "find_companies" /\ outcome.kind = "return") =>
    /\ outcome.value = matches
    /\ \A i \in 1..Len(companies) :
         Cardinality({j \in 1..Len(matches) : matches[j].company.id = companies[i].id})
           = IF RLe(args.threshold,
                    ListingScore(args.criteria, companies[i].properties, args.fuzzy_match))
             THEN 1 ELSE 0
    /\ \A j \in 1..Len(matches) :
         /\ matches[j].company \in Range(companies)
         /\ matches[j].match_score
              = ListingScore(args.criteria, matches[j].company.properties,
                             args.fuzzy_match)
         /\ RLe(args.threshold, matches[j].match_score)
    /\ \A j \in 1..Len(matches), k \in 1..Len(matches) :
         j < k => RLe(matches[k].match_score, matches[j].match_score)

\* C4, its case: a search whose entries come back in another order than the store
\* pages them, with different scores, and a record left out.
C4_Witness ==
  /\ op = "find_companies"
  /\ outcome.kind = "return"
  /\ Len(matches) >= 2
  /\ matches[1].company.id > matches[2].company.id
  /\ RLt(matches[2].match_score, matches[1].match_score)
  /\ Len(matches) < Len(companies)

(***************************************************************************)
(* batch_update_companies                                                  *)
(***************************************************************************)
\* an update of a batch passes validation: it has no industry or a valid one
UpdatePasses(u, a) ==
  \/ ~Has(u.properties, "industry")
  \/ is_valid_industry(u.properties["industry"], a.test_mode, a.allow_custom_industry)

\* the batch inputs of the updates that pass, in input order
ExpectedInputsOf(valid, a) ==
  [i \in 1..Len(valid) |->
     [id |-> valid[i].company_id,
      properties |-> NormalizedData(valid[i].properties, a.test_mode)]]

ExpectedInputs(a) ==
  ExpectedInputsOf(SelectSeq(a.updates, LAMBDA u : UpdatePasses(u, a)), a)

BulkCalls(tr) == SelectSeq(tr, LAMBDA c : c.call = "batch_update")

RECURSIVE FlattenInputs(_)
FlattenInputs(bulk) ==
  IF bulk = <<>> THEN <<>> ELSE Head(bulk).inputs \o FlattenInputs(Tail(bulk))

\* the entries of a result list for a company id
EntriesFor(results, id) == {j \in 1..Len(results) : results[j].company_id = id}

NeverSubmitted(tr, id) ==
  \A k \in 1..Len(tr) :
    /\ tr[k].call = "update" => tr[k].id # id
    /\ tr[k].call = "batch_update" =>
         \A m \in 1..Len(tr[k].inputs) : tr[k].inputs[m].id # id

\* the update is an input of a bulk call of the trace
InBulkCall(tr, id) ==
  \E k \in 1..Len(tr) :
    /\ tr[k].call = "batch_update"
    /\ \E m \in 1..Len(tr[k].inputs) : tr[k].inputs[m].id = id

\* C6: batch_update_companies validates every update, in input order, before its
\* first store call; an update that fails validation gets an error entry and is
\* in no bulk call and no individual update, and every update that passes is
\* submitted in a bulk call.
C6_ValidatedBeforeMutation ==
  op = "batch_update_companies" =>
    /\ Len(calls) >= Len(args.updates)
    /\ \A i \in 1..Len(args.updates) :
         /\ calls[i].call = "validate"
         /\ calls[i].company_id = args.updates[i].company_id
         /\ calls[i].ok = UpdatePasses(args.updates[i], args)
    /\ \A k \in (Len(args.updates) + 1)..Len(calls) : calls[k].call \in CompanyMutations
    /\ \A i \in 1..Len(args.updates) :
         IF UpdatePasses(args.updates[i], args)
         THEN InBulkCall(calls, args.updates[i].company_id)
         ELSE /\ \E j \in EntriesFor(outcome.value, args.updates[i].company_id) :
                   "error" \in DOMAIN outcome.value[j]
              /\ NeverSubmitted(calls, args.updates[i].company_id)

\* C6, its case: a batch in which an update fails validation and another passes
\* and is submitted.
C6_Witness ==
  /\ op = "batch_update_companies"
  /\ \E i \in 1..Len(args.updates) : ~UpdatePasses(args.updates[i], args)
  /\ \E i \in 1..Len(args.updates) : UpdatePasses(args.updates[i], args)
  /\ \E k \in 1..Len(calls) : calls[k].call = "batch_update" /\ calls[k].ok

\* what follows the bulk call at position p of the store calls sc
FollowedAsItShould(sc, p) ==
  IF sc[p].ok
  THEN p = Len(sc) \/ sc[p + 1].call = "batch_update"
  ELSE /\ p + Len(sc[p].inputs) <= Len(sc)
       /\ \A k \in 1..Len(sc[p].inputs) :
            /\ sc[p + k].call = "update"
            /\ sc[p + k].id = sc[p].inputs[k].id
            /\ sc[p + k].properties = sc[p].inputs[k].properties
       /\ \/ p + Len(sc[p].inputs) = Len(sc)
          \/ sc[p + Len(sc[p].inputs) + 1].call = "batch_update"

\* the groups of the bulk calls bc are full but for the last, and never empty
GroupsOfBatchSize(bc) ==
  \A g \in 1..Len(bc) :
    /\ Len(bc[g].inputs) \in 1..BatchSize
    /\ g < Len(bc) => Len(bc[g].inputs) = BatchSize

BulkThenFallback(sc) ==
  /\ sc # <<>> => sc[1].call = "batch_update"
  /\ \A p \in 1..Len(sc) : sc[p].call = "batch_update" => FollowedAsItShould(sc, p)

\* C7: the bulk calls of batch_update_companies carry the passing updates in input
\* order, in consecutive groups of at most BatchSize; a bulk call that fails is
\* followed by one individual update for each item of its group, in order and
\* whatever the individual updates before it did, and by nothing else before the
\* next bulk call; a bulk call that answers is followed by no individual update.
C7_GroupsAndFallback ==
  op = "batch_update_companies" =>
    /\ FlattenInputs(BulkCalls(calls)) = ExpectedInputs(args)
    /\ GroupsOfBatchSize(BulkCalls(calls))
    /\ BulkThenFallback(StoreCalls(calls))

\* C7, its case: three groups, the first bulk call fails and an individual update
\* of its group fails before another succeeds, and a later bulk call answers.
C7_Witness ==
  /\ op = "batch_update_companies"
  /\ Len(BulkCalls(calls)) = 3
  /\ ~BulkCalls(calls)[1].ok
  /\ BulkCalls(calls)[3].ok
  /\ \E i \in 1..Len(calls), j \in 1..Len(calls) :
       /\ i < j
       /\ calls[i].call = "update" /\ ~calls[i].ok
       /\ calls[j].call = "update" /\ calls[j].ok

\* C8: the result list of batch_update_companies is in input order: entry i is the
\* outcome of updates[i].
C8_ResultsInInputOrder ==
  op = "batch_update_companies" =>
    \A i \in 1..Len(args.updates) :
      /\ i <= Len(outcome.value)
      /\ outcome.value[i].company_id = args.updates[i].company_id

CatchingOps == {"update_company", "create_contact", "update_contact", "delete_contact"}

\* the validation of a single-item operation passed: it went on to the store
ValidationPassed == calls # <<>>

\* C10 as stated: no single-item mutating operation, create_or_update_company
\* among them, raises once its validation has passed, and a failed store call
\* gives a result with an error field.
C10_AllSingleItemOps ==
  (op \in CatchingOps \cup {"create_or_update_company"} /\ ValidationPassed) =>
    /\ outcome.kind = "return"
    /\ StoreFailed(calls) => "error" \in DOMAIN outcome.value

\* C10 amended: update_company, create_contact, update_contact and delete_contact
\* never raise once validation has passed, and a failed store call gives a result
\* with an error field.
C10_CatchingOps ==
  (op \in CatchingOps /\ ValidationPassed) =>
    /\ outcome.kind = "return"
    /\ StoreFailed(calls) => "error" \in DOMAIN outcome.value

\* C10, its case: an update_company for an id the store does not hold, handed back
\* as an error result.
C10_Witness ==
  /\ op = "update_company"
  /\ ~KnownId(companies, args.company_id)
  /\ args.fault = 0
  /\ StoreFailed(calls)
  /\ "error" \in DOMAIN outcome.value


(***************************************************************************)
(* C11: update_company called with properties whose industry is the empty  *)
(* string does not raise: it makes the store update and returns a result   *)
(* without an error field whose industry is the empty string.              *)
(* test_hubspot_server.py:499-505 expects this; server.py:381-384 raises,  *)
(* since is_valid_industry is false of a blank value (industries.py:250).  *)
(***************************************************************************)
C11_EmptyIndustryUpdates ==
  (/\ op = "update_company"
   /\ "industry" \in DOMAIN args.properties
   /\ args.properties.industry = iEmpty
   /\ KnownId(companies, args.company_id)
   /\ args.fault = 0)
    => /\ outcome.kind = "return"
       /\ "error" \notin DOMAIN outcome.value
       /\ outcome.value.properties.industry = iEmpty
       /\ Len(calls) = 1
       /\ calls[1].call = "update"

(***************************************************************************)
(* C12: an industry value given in mixed case is rejected as not           *)
(* uppercase.                                                              *)
(***************************************************************************)
\* the value has an uppercase and a lowercase ASCII letter, and otherwise only
\* ASCII letters, hyphens, spaces and underscores, as "Computer-Software" has
IsAsciiLetter(c) == \E i \in 1..26 : Uppers[i] = c \/ Lowers[i] = c

IsMixedCase(s) ==
  /\ s # None
  /\ \E i \in 1..Len(s) : IsAsciiLetter(s[i]) /\ IsUpperChar(s[i])
  /\ \E i \in 1..Len(s) : IsAsciiLetter(s[i]) /\ IsLowerChar(s[i])
  /\ \A i \in 1..Len(s) : IsAsciiLetter(s[i]) \/ s[i] \in {"-", " ", "_"}

HasMixedCaseIndustry(properties) ==
  Has(properties, "industry") /\ IsMixedCase(properties["industry"])

\* the error entries of a result list for a company id
ErrorEntriesFor(results, id) ==
  {j \in EntriesFor(results, id) : "error" \in DOMAIN results[j]}

C13_Idempotent ==
  (op = "normalize_industry" /\ outcome.kind = "return") =>
    normalize_industry_call(outcome.value, args.test_mode) = Returned(outcome.value)

\* C13, its case: a value that cleanup and the alias table both changed, as an
\* alias key given in lowercase or with separators around it is.
C13_Witness ==
  /\ op = "normalize_industry"
  /\ outcome.kind = "return"
  /\ args.industry # None
  /\ CleanIndustry(args.industry) # args.industry
  /\ outcome.value # CleanIndustry(args.industry)

(***************************************************************************)
(* C14: normalize_industry raises the format error exactly when, after     *)
(* uppercasing and separator cleanup, the value has a character other than *)
(* A-Z or underscore; so every value it returns, in either mode and for    *)
(* any input character set, consists only of characters in [A-Z_].         *)
(***************************************************************************)
\* a character of [A-Z_]
IsCanonicalChar(c) == c = "_" \/ \E i \in 1..26 : Uppers[i] = c

C14_OnlyCanonicalChars ==
  op = "normalize_industry" =>
    /\ (outcome.kind = "raise") <=>
         (/\ ~IsBlank(args.industry)
          /\ \E i \in 1..Len(CleanIndustry(args.industry)) :
               ~IsCanonicalChar(CleanIndustry(args.industry)[i]))
    /\ outcome.kind = "return" =>
         \A i \in 1..Len(outcome.value) : IsCanonicalChar(outcome.value[i])

(***************************************************************************)
(* C15: normalize_industry equals the reference pipeline.  None or blank   *)
(* gives the empty string without error; otherwise the value is uppercased *)
(* and trimmed, hyphens and spaces become single underscores with empty    *)
(* segments collapsed, and the alias table of the mode is applied once;    *)
(* values with no alias pass through unchanged.                            *)
(***************************************************************************)
\* the values the claim names
cComputerSoftware == <<"C","O","M","P","U","T","E","R","_","S","O","F","T","W","A","R","E">>
cTechnology == <<"T","E","C","H","N","O","L","O","G","Y">>
cInformationTechnology == <<"I","N","F","O","R","M","A","T","I","O","N","_","T","E","C","H","N","O","L","O","G","Y","_","A","N","D","_","S","E","R","V","I","C","E","S">>
cManufacturing == <<"M","A","N","U","F","A","C","T","U","R","I","N","G">>
cIndustrialAutomation == <<"I","N","D","U","S","T","R","I","A","L","_","A","U","T","O","M","A","T","I","O","N">>

IsSeparator(c) == c \in {"-", " ", "_"}

\* the pieces lo..hi of a sequence of sequences, joined
RECURSIVE ConcatRange(_, _, _)
ConcatRange(ss, lo, hi) ==
  IF lo > hi THEN <<>>
  ELSE IF lo = hi THEN ss[lo]
  ELSE ConcatRange(ss, lo, (lo + hi) \div 2) \o ConcatRange(ss, (lo + hi) \div 2 + 1, hi)

ConcatAll(ss) == ConcatRange(ss, 1, Len(ss))

\* the reference cleanup of an uppercased, trimmed value: its characters other
\* than separators, with one underscore between two runs of them
RefCanonical(u) ==
  LET keep(i) == ~IsSeparator(u[i])
      startsSegment(i) == /\ i > 1
                          /\ IsSeparator(u[i - 1])
                          /\ \E j \in 1..(i - 1) : keep(j)
      piece(i) == IF ~keep(i) THEN <<>>
                  ELSE IF startsSegment(i) THEN <<"_", u[i]>>
                  ELSE <<u[i]>>
  IN  ConcatAll([i \in 1..Len(u) |-> piece(i)])

\* the reference alias step: the target of the key, or the value itself
RefAlias(test_mode, s) ==
  LET table == IF test_mode THEN test_mode_aliases ELSE production_aliases
      targets == {p[2] : p \in {q \in table : q[1] = s}}
  IN  IF targets = {} THEN s ELSE CHOOSE x \in targets : TRUE

IsBlankValue(s) == s = None \/ \A i \in 1..Len(s) : IsSpace(s[i])

VocabularyOf(test_mode) == IF test_mode THEN TEST_INDUSTRIES ELSE APPROVED_INDUSTRIES

C17_ValidIffMember ==
  op = "is_valid_industry" =>
    /\ (/\ ~IsBlankValue(args.industry)
        /\ normalize_industry_call(args.industry, args.test_mode).kind = "return"
        /\ normalize_industry_call(args.industry, args.test_mode).value # <<>>) =>
         (outcome = Returned(TRUE)) <=>
           (\/ args.allow_custom
            \/ normalize_industry_call(args.industry, args.test_mode).value
                 \in VocabularyOf(args.test_mode))
    /\ (args.industry = cComputerSoftware /\ ~args.allow_custom) =>
         outcome = Returned(~args.test_mode)
    /\ args.industry = iCustomIndustry => outcome = Returned(args.allow_custom)

\* C17, its case: COMPUTER_SOFTWARE checked in test mode without allow_custom,
\* and found invalid.
C17_Witness ==
  /\ op = "is_valid_industry"
  /\ args.industry = cComputerSoftware
  /\ args.test_mode
  /\ ~args.allow_custom
  /\ outcome = Returned(FALSE)

(***************************************************************************)
(* C18: the test vocabulary is a subset of the production vocabulary:      *)
(* every member of TEST_INDUSTRIES is also a member of                     *)
(* APPROVED_INDUSTRIES.  Stated of each value the industry functions are   *)
(* called with.                                                            *)
(***************************************************************************)
C18_TestSubsetOfProduction ==
  (op \in {"normalize_industry", "is_valid_industry"}
     /\ args.industry \in TEST_INDUSTRIES)
    => args.industry \in APPROVED_INDUSTRIES

(***************************************************************************)
(* C19: levenshtein_ratio(a, b) is 0.0 when either string is empty and     *)
(* otherwise 1 - L(a, b) / max(len(a), len(b)), L being the edit distance  *)
(* with unit-cost insertion, deletion and substitution; so                 *)
(* levenshtein_ratio(s, s) is 1.0 for a non-empty s, and the function is   *)
(* symmetric in its arguments.                                             *)
(***************************************************************************)
Min3(a, b, c) == IF a <= b /\ a <= c THEN a ELSE IF b <= c THEN b ELSE c

\* the edit distance by its definition: the cheapest of deleting the head of a,
\* inserting the head of b, and substituting one head for the other
RECURSIVE EditDistance(_, _)
EditDistance(a, b) ==
  IF a = <<>> THEN Len(b)
  ELSE IF b = <<>> THEN Len(a)
  ELSE Min3(EditDistance(Tail(a), b) + 1,
            EditDistance(a, Tail(b)) + 1,
            EditDistance(Tail(a), Tail(b)) + (IF Head(a) = Head(b) THEN 0 ELSE 1))

IsEmptyText(s) == s = None \/ s = <<>>

\* 1 - L(a, b) / max(len(a), len(b)) of two non-empty strings, as a fraction
RefSimilarity(a, b) ==
  IF IsEmptyText(a) \/ IsEmptyText(b) THEN RZero
  ELSE LET longer == IF Len(a) >= Len(b) THEN Len(a) ELSE Len(b)
       IN  Rat(longer - EditDistance(a, b), longer)

C19_RatioOfEditDistance ==
  op = "levenshtein_ratio" =>
    /\ outcome = Returned(RefSimilarity(args.s1, args.s2))
    /\ (IsEmptyText(args.s1) \/ IsEmptyText(args.s2)) => outcome.value = RZero
    /\ (args.s1 = args.s2 /\ ~IsEmptyText(args.s1)) => outcome.value = ROne
    /\ outcome.value = levenshtein_ratio(args.s2, args.s1)

\* C19, its case: two different non-empty strings of different lengths that
\* share some but not all of their characters.
C19_Witness ==
  /\ op = "levenshtein_ratio"
  /\ ~IsEmptyText(args.s1)
  /\ ~IsEmptyText(args.s2)
  /\ Len(args.s1) # Len(args.s2)
  /\ RLt(RZero, outcome.value)
  /\ RLt(outcome.value, ROne)

(***************************************************************************)
(* C20: _match_domains returns the value of the first rule that applies to *)
(* the normalized domains: 0.0 if either input is empty; 1.0 if they are   *)
(* equal; 0.9 if one ends with a dot followed by the other; 0.8 if their   *)
(* first labels, before the first dot, are equal; similarity * 0.7 if the  *)
(* similarity of the first labels is above 0.8; otherwise 0.0.             *)
(***************************************************************************)
\* x ends with a dot followed by y
IsDotSuffix(x, y) ==
  /\ Len(x) > Len(y)
  /\ x[Len(x) - Len(y)] = "."
  /\ \A k \in 1..Len(y) : x[Len(x) - Len(y) + k] = y[k]

\* the text before the first dot, all of it when there is none
FirstLabel(x) ==
  IF \E i \in 1..Len(x) : x[i] = "."
  THEN SubSeq(x, 1, (CHOOSE i \in 1..Len(x) :
                       x[i] = "." /\ \A k \in 1..(i - 1) : x[k] # ".") - 1)
  ELSE x

\* the ladder over two normalized domains
RefLadder(c, d) ==
  IF c = d THEN ROne
  ELSE IF IsDotSuffix(c, d) \/ IsDotSuffix(d, c) THEN Rat(9, 10)
  ELSE IF FirstLabel(c) = FirstLabel(d) THEN Rat(8, 10)
  ELSE IF RLt(Rat(8, 10), RefSimilarity(FirstLabel(c), FirstLabel(d)))
       THEN RMul(RefSimilarity(FirstLabel(c), FirstLabel(d)), Rat(7, 10))
  ELSE RZero

C20_FirstApplicableRule ==
  op = "_match_domains" =>
    /\ outcome.kind = "return"
    /\ (IsEmptyText(args.criteria_domain) \/ IsEmptyText(args.company_domain)) =>
         outcome.value = RZero
    /\ ~(IsEmptyText(args.criteria_domain) \/ IsEmptyText(args.company_domain)) =>
         outcome.value = RefLadder(normalize_domain(args.criteria_domain),
                                   normalize_domain(args.company_domain))
    /\ (args.criteria_domain = dShopAcme /\ args.company_domain = dAcme) =>
         outcome.value = Rat(9, 10)

\* C20, its case: two domains whose first labels differ and are similar above
\* 0.8, so that the last scoring rule decides.
C20_Witness ==
  /\ op = "_match_domains"
  /\ ~IsEmptyText(args.criteria_domain)
  /\ ~IsEmptyText(args.company_domain)
  /\ RLt(RZero, outcome.value)
  /\ RLt(outcome.value, Rat(8, 10))

(***************************************************************************)
(* _match_domains and the ways of writing a domain                         *)
(***************************************************************************)
\* C21: _match_domains gives the same result however its two domains are written:
\* with or without a scheme, a leading www., a trailing slash, in lower or upper
\* case, in any combination.  A call with the two domains written in any of these
\* ways returns what the call with the two plain domains returns, so two ways of
\* writing one domain score 1.0.
C21_WritingInvariant ==
  \A p \in PlainDomains, q \in PlainDomains :
    (/\ op = "_match_domains"
     /\ args.criteria_domain \in Variants(p)
     /\ args.company_domain \in Variants(q))
    => /\ outcome = Returned(_match_domains(p, q))
       /\ (p = q => outcome.value = ROne)

(***************************************************************************)
(* The detailed scorer                                                     *)
(***************************************************************************)
\* the criteria name and the record name are both strings, and equal after
\* trimming and lowercasing
NamesEqual(properties, criteria) ==
  /\ "name" \in DOMAIN criteria /\ criteria["name"] # None
  /\ "name" \in DOMAIN properties /\ properties["name"] # None
  /\ PyStrip(PyLower(criteria["name"])) = PyStrip(PyLower(properties["name"]))

\* C22: in the detailed scorer, whenever the criteria name and the record name are
\* equal after trimming and lowercasing, the score is exactly 1.0, for either
\* value of the fuzzy flag and whatever other fields the criteria or the record
\* hold, matching or not.
C22_EqualNamesScoreOne ==
  (/\ op = "_calculate_match_score"
   /\ NamesEqual(args.company.properties, args.criteria))
  => outcome = Returned(ROne)

\* C22, its case: names that differ as written and are equal after trimming and
\* lowercasing, scored without fuzzy matching against a record whose domain
\* differs, whose industry is malformed, and with a further criterion the record
\* does not have.
C22_Witness ==
  /\ op = "_calculate_match_score"
  /\ ~args.fuzzy_match
  /\ NamesEqual(args.company.properties, args.criteria)
  /\ args.criteria["name"] # args.company.properties["name"]
  /\ "city" \in DOMAIN args.criteria /\ "city" \notin DOMAIN args.company.properties
  /\ "industry" \in DOMAIN args.criteria
  /\ args.company.properties["industry"] = iDigits
  /\ outcome = Returned(ROne)

(***************************************************************************)
(* The two scorers on bad input                                            *)
(***************************************************************************)
\* a value that is None, empty or blank
IsBadText(v) == v = None \/ PyStrip(v) = <<>>

\* C23: fuzzy matching never raises and degrades to 0.0 on bad input.  With no
\* store call failing, find_companies (the listing scorer) and the detailed scorer
\* complete without an error for every criteria and record, and a criteria name
\* that is None, empty or blank contributes nothing: no entry of find_companies
\* has a name score in its match_details.
C23_DegradesToZero ==
  /\ (op \in {"find_companies", "_calculate_match_score"} => outcome.kind = "return")
  /\ (/\ op = "find_companies"
      /\ outcome.kind = "return"
      /\ "name" \in DOMAIN args.criteria
      /\ IsBadText(args.criteria["name"]))
     => \A i \in 1..Len(matches) : "name" \notin DOMAIN matches[i].match_details

(***************************************************************************)
(* The range of the scores                                                 *)
(***************************************************************************)
InUnitInterval(r) == RLe(RZero, r) /\ RLe(r, ROne)

\* C24: every score the matcher produces lies in [0, 1]: the result of
\* levenshtein_ratio, the result of _match_domains, the detailed score, and the
\* match_score and every match_details score of every entry of find_companies.
C24_ScoresInUnitInterval ==
  /\ (op \in {"levenshtein_ratio", "_match_domains"} => InUnitInterval(outcome.value))
  /\ (op = "_calculate_match_score" /\ outcome.kind = "return"
        => InUnitInterval(outcome.value))
  /\ (op = "find_companies" /\ outcome.kind = "return"
        => \A i \in 1..Len(outcome.value) :
             /\ InUnitInterval(outcome.value[i].match_score)
             /\ \A k \in DOMAIN outcome.value[i].match_details :
                  InUnitInterval(outcome.value[i].match_details[k]))

\* C24, its case: a detailed score of 1.0 for names that are not equal, where the
\* name matched by containment, the boost of 1.2 applied, and the cap brought the
\* score back to 1.0.
C24_Witness ==
  /\ op = "_calculate_match_score"
  /\ ~NamesEqual(args.company.properties, args.criteria)
  /\ DOMAIN args.criteria = {"name"}
  /\ args.criteria["name"] = sAcmeCorp
  /\ args.company.properties["name"] = sAcmeCorporation
  /\ outcome = Returned(ROne)

(***************************************************************************)
(* find_companies and the pages of the store                               *)
(***************************************************************************)
\* the page the store gave to the i-th store call of the operation
PageGiven(i) == GetPage(companies, calls[i].after)

\* the store signals with this page that there is no further page
IsLastPage(page) == page.results = <<>> \/ page.next = NoCursor

\* the positions among the page requests at which the record was delivered
DeliveredAt(company) ==
  {i \in 1..Len(calls) :
     \E k \in 1..Len(PageGiven(i).results) : PageGiven(i).results[k] = company}

\* the entries of the result that are for the record
ResultEntriesOf(company) ==
  {i \in 1..Len(matches) : matches[i].company = company}

RefWeight(k) ==
  IF k = "name" THEN Rat(5, 10) ELSE IF k = "domain" THEN Rat(3, 10) ELSE Rat(2, 10)

\* the weight of a field when the criteria search for it, else nothing
RefSearched(criteria, k) == IF k \in DOMAIN criteria THEN RefWeight(k) ELSE RZero

\* field score * weight of a field with a score in the match details, else nothing
RefGained(details, k) ==
  IF k \in DOMAIN details THEN RMul(details[k], RefWeight(k)) ELSE RZero

\* the listing score from the match details of an entry
RefListingScore(criteria, details) ==
  IF DOMAIN criteria \cap {"name", "domain", "industry"} = {} THEN RZero
  ELSE RDiv(RAdd(RefGained(details, "name"),
                 RAdd(RefGained(details, "domain"), RefGained(details, "industry"))),
            RAdd(RefSearched(criteria, "name"),
                 RAdd(RefSearched(criteria, "domain"), RefSearched(criteria, "industry"))))

SameIgnoringCase(a, b) ==
  Len(a) = Len(b) /\ \A i \in 1..Len(a) : LowerChar(a[i]) = LowerChar(b[i])

OccursIgnoringCase(a, b) ==
  \E k \in 0..(Len(b) - Len(a)) : \A i \in 1..Len(a) : LowerChar(a[i]) = LowerChar(b[k + i])

\* the name field score of a criteria name against a record name
RefNameScore(criteria_name, record_name, fuzzy_match) ==
  IF SameIgnoringCase(criteria_name, record_name) THEN ROne
  ELSE IF OccursIgnoringCase(criteria_name, record_name) THEN Rat(9, 10)
  ELSE IF fuzzy_match
       THEN levenshtein_ratio(PyLower(criteria_name), PyLower(record_name))
  ELSE RZero

\* the name field score of an entry: that of the two names when both are there
RefNameField(criteria, properties, fuzzy_match) ==
  IF "name" \in DOMAIN criteria /\ "name" \in DOMAIN properties
     /\ properties["name"] # None
  THEN RefNameScore(criteria["name"], properties["name"], fuzzy_match)
  ELSE RZero

\* C26: the listing score of a candidate is the sum, over the fields name, domain
\* and industry that the criteria hold and that produced a positive field score,
\* of field score * weight, divided by the sum of the weights (name 0.5, domain
\* 0.3, industry 0.2) of all of these fields the criteria hold, whether or not the
\* record has them, and 0.0 when the criteria hold none.  The name field score is
\* 1.0 for names equal but for case, 0.9 when the criteria name occurs in the
\* record name, otherwise the similarity with fuzzy matching and 0 without.
\* Hence "Acme Corp" against "Acme Corporation" scores strictly between 0.8 and
\* 1.0, and name-only criteria equal to the record name score 1.0.
C26_ListingScore ==
  (/\ op = "find_companies"
   /\ outcome.kind = "return"
   /\ ("name" \in DOMAIN args.criteria => args.criteria["name"] # None))
  => \A i \in 1..Len(matches) :
       LET e     == matches[i]
           props == e.company.properties
           name  == RefNameField(args.criteria, props, args.fuzzy_match)
       IN  /\ e.match_score = RefListingScore(args.criteria, e.match_details)
           /\ \A k \in DOMAIN e.match_details :
                k \in DOMAIN args.criteria /\ RLt(RZero, e.match_details[k])
           /\ IF RLt(RZero, name)
              THEN "name" \in DOMAIN e.match_details /\ e.match_details["name"] = name
              ELSE "name" \notin DOMAIN e.match_details
           /\ (args.criteria = [name |-> sAcmeCorp] /\ props["name"] = sAcmeCorporation)
                => RLt(Rat(8, 10), e.match_score) /\ RLt(e.match_score, ROne)
           /\ (/\ DOMAIN args.criteria = {"name"}
               /\ "name" \in DOMAIN props
               /\ args.criteria["name"] = props["name"])
                => e.match_score = ROne

\* C26, its case: criteria with a name and a domain; one entry is for a record
\* without a domain whose name is equal, scored 0.5 / 0.8, another for a record in
\* whose name the criteria name occurs, with a name score of 0.9.
C26_Witness ==
  /\ op = "find_companies"
  /\ outcome.kind = "return"
  /\ DOMAIN args.criteria = {"name", "domain"}
  /\ \E i \in 1..Len(matches) :
       /\ "domain" \notin DOMAIN matches[i].company.properties
       /\ matches[i].match_details = [name |-> ROne]
       /\ matches[i].match_score = Rat(5, 8)
  /\ \E i \in 1..Len(matches) :
       /\ "name" \in DOMAIN matches[i].match_details
       /\ matches[i].match_details["name"] = Rat(9, 10)

(***************************************************************************)
(* The domain in the detailed score                                        *)
(***************************************************************************)
\* the criteria without their domain
WithoutDomain(criteria) == [k \in DOMAIN criteria \ {"domain"} |-> criteria[k]]

\* a domain is present in the criteria and in the record, and scores 0
DomainScoresZero(properties, criteria) ==
  /\ "domain" \in DOMAIN criteria /\ ~IsEmptyText(criteria["domain"])
  /\ "domain" \in DOMAIN properties /\ ~IsEmptyText(properties["domain"])
  /\ _match_domains(criteria["domain"], properties["domain"]) = RZero

\* C27: in the detailed scorer a domain that is present in the criteria and in the
\* record and scores 0 changes neither the accumulated score nor total_weight:
\* the score is the one the same criteria without the domain give.
C27_ZeroDomainLeavesScore ==
  (/\ op = "_calculate_match_score"
   /\ outcome.kind = "return"
   /\ DomainScoresZero(args.company.properties, args.criteria))
  => outcome.value
       = _calculate_match_score(args.company, WithoutDomain(args.criteria),
                                args.fuzzy_match)

(***************************************************************************)
(* A malformed industry in a record                                        *)
(***************************************************************************)
\* normalization of the value fails
IsMalformed(v) ==
  ~IsEmptyText(v) /\ normalize_industry_call(v, FALSE).kind = "raise"

HasMalformedIndustry(properties) ==
  "industry" \in DOMAIN properties /\ IsMalformed(properties["industry"])

\* C28: in find_companies a record whose industry is malformed never makes the
\* search fail.  With criteria that hold a well-formed industry (and a name that
\* is not None) the search returns; it has scanned to the last page; every record
\* has one entry when its listing score reaches the threshold; and an entry for a
\* record with a malformed industry has no industry score in its match_details,
\* while the industry weight counts in what its score is divided by.
C28_MalformedIndustrySwallowed ==
  (/\ op = "find_companies"
   /\ "industry" \in DOMAIN args.criteria
   /\ ~IsMalformed(args.criteria["industry"])
   /\ ("name" \in DOMAIN args.criteria => args.criteria["name"] # None)
   /\ \E j \in 1..Len(companies) : HasMalformedIndustry(companies[j].properties))
  => /\ outcome.kind = "return"
     /\ calls # <<>> /\ IsLastPage(PageGiven(Len(calls)))
     /\ \A j \in 1..Len(companies) :
          /\ Cardinality(DeliveredAt(companies[j])) = 1
          /\ Cardinality(ResultEntriesOf(companies[j]))
               = IF RLe(args.threshold,
                        ListingScore(args.criteria, companies[j].properties,
                                     args.fuzzy_match))
                 THEN 1 ELSE 0
          /\ args.threshold = RZero => ResultEntriesOf(companies[j]) # {}
     /\ \A i \in 1..Len(matches) :
          HasMalformedIndustry(matches[i].company.properties)
          => /\ "industry" \notin DOMAIN matches[i].match_details
             /\ matches[i].match_score
                  = RDiv(RAdd(RefGained(matches[i].match_details, "name"),
                              RefGained(matches[i].match_details, "domain")),
                         RAdd(RefWeight("industry"),
                              RAdd(RefSearched(args.criteria, "name"),
                                   RefSearched(args.criteria, "domain"))))

\* C28, its case: the first record of a store of two pages has a malformed
\* industry and an equal name: its entry has the name score only and scores
\* 0.5 / 0.7; a record of the second page has an entry with an industry score.
C28_Witness ==
  /\ op = "find_companies"
  /\ outcome.kind = "return"
  /\ Len(calls) = 2
  /\ HasMalformedIndustry(companies[1].properties)
  /\ \E i \in 1..Len(matches) :
       /\ matches[i].company = companies[1]
       /\ matches[i].match_details = [name |-> ROne]
       /\ matches[i].match_score = Rat(5, 7)
  /\ \E i \in 1..Len(matches) :
       /\ DeliveredAt(matches[i].company) = {2}
       /\ "industry" \in DOMAIN matches[i].match_details

(***************************************************************************)
(* Termination of find_companies                                           *)
(***************************************************************************)
\* the cursor of the k-th page request when the cursors are followed from the
\* first page
RECURSIVE CursorOfRequest(_, _)
CursorOfRequest(cs, k) ==
  IF k <= 1 THEN NoCursor ELSE GetPage(cs, CursorOfRequest(cs, k - 1)).next

\* the store ends its collection with the k-th page
EndsAt(cs, k) ==
  /\ k >= 1
  /\ IsLastPage(GetPage(cs, CursorOfRequest(cs, k)))
  /\ \A m \in 1..(k - 1) : ~IsLastPage(GetPage(cs, CursorOfRequest(cs, m)))

\* the search taken in one piece gives what the turns gave
C29_TurnsAgree ==
  (op = "find_companies" /\ outcome # NoOutcome) =>
    LET whole == find_companies(companies, args.criteria, args.fuzzy_match,
                                args.threshold, 0)
    IN  /\ whole.calls = calls
        /\ whole.matches = matches
        /\ (whole.raised = "") = (outcome.kind = "return")

Searching == op = "find_companies" /\ outcome = NoOutcome

\* the search is over, and when it returned it had made as many page requests as
\* it takes to reach the page that ends the collection
SearchOver ==
  /\ op = "find_companies"
  /\ outcome # NoOutcome
  /\ outcome.kind = "return" => EndsAt(companies, Len(calls))

\* C29: find_companies terminates for every store whose collection is finite:
\* when following the cursors from the first page reaches a page without results
\* or without further paging after finitely many requests, a search that is under
\* way is over at some later point, and when it returns it has made exactly that
\* many page requests.
C29_SearchTerminates == Searching ~> SearchOver

\* C29, its case: a search that returned after a second page request, the first
\* page having had a next cursor.
C29_Witness ==
  /\ op = "find_companies"
  /\ outcome.kind = "return"
  /\ Len(calls) = 2
  /\ ~IsLastPage(GetPage(companies, NoCursor))
  /\ EndsAt(companies, 2)

(***************************************************************************)
(* create_contact and a known email                                        *)
(***************************************************************************)
\* the create calls among the calls of the operation
CreateCalls == {i \in 1..Len(calls) : calls[i].call = "contact_create"}

\* the contacts of the store before the operation: the contact a create call
\* added is the last one
ContactsBefore ==
  IF \E i \in CreateCalls : calls[i].ok
  THEN SubSeq(contacts, 1, Len(contacts) - 1)
  ELSE contacts

\* the properties carry an email
EmailGiven == Has(args.properties, "email") /\ Truthy(args.properties["email"])

\* the search was made and reported: the store call did not fail
SearchReported ==
  /\ calls # <<>>
  /\ calls[1].call = "contact_search"
  /\ calls[1].email = args.properties["email"]
  /\ calls[1].ok

SearchFailed == calls # <<>> /\ calls[1].call = "contact_search" /\ ~calls[1].ok

\* the search reported at least one contact with the email
EmailKnown ==
  EmailGiven /\ SearchReported /\ SearchTotal(ContactsBefore, args.properties["email"]) > 0

\* C30: create_contact never creates a second contact for an email the store
\* already knows: when the properties carry an email and the search for it
\* reports a contact, the result is an error, no create call is issued and the
\* store is as before; when the search reports none, or no email is given (no
\* search is made then), exactly one create call is issued.
C30_NoSecondContact ==
  op = "create_contact" =>
    /\ EmailGiven => (SearchReported \/ SearchFailed)
    /\ ~EmailGiven => (calls = <<>> \/ calls[1].call # "contact_search")
    /\ EmailKnown =>
         /\ outcome.kind = "return"
         /\ "error" \in DOMAIN outcome.value
         /\ CreateCalls = {}
         /\ contacts = ContactsBefore
    /\ (~EmailKnown /\ ~SearchFailed) => Cardinality(CreateCalls) = 1

\* C30, its case: a contact with an email the store holds was asked for, the
\* search reported it, and the store holds the email once, as before.
C30_Witness ==
  /\ op = "create_contact"
  /\ EmailKnown
  /\ CreateCalls = {}
  /\ SearchTotal(contacts, args.properties["email"]) = 1
====
